---- MODULE Spec2Model ----
\* State-machine model of the PotLuck web API (PTL.Domain.WebAPI): the relational
\* tables the handlers read and write, and the HTTP handlers as sequences of
\* store operations.  One step of a request is one awaited pool.query together
\* with the synchronous code that follows it up to the next await.
EXTENDS Integers, Sequences, FiniteSets, TLC

\* ------------------------------------------------------------------ bounds
MaxUsers == 2
MaxPolls == 2
MaxOptions == 2
MaxReq == 2
MaxTime == 1
MaxCount == 6
\* the polls that exist when the concurrent vote requests of SpecRace start
RacePolls == 1
MaxEvents == 1
MaxBlogs == 1
MaxPosts == 1
MaxText == 2
MaxServed == 2
MaxQueryLen == 3
MaxTotal == 101

\* ------------------------------------------------------- program constants
\* body('options').isArray({ min: 2 })
MinOptions == 2

Roles == {"Admin", "Member", "President", "Secretary"}

UserIds == 1..MaxUsers
PollIds == 1..MaxPolls
Req == 1..MaxReq

\* A poll_options.id is a uuid_generate_v4() value: any value no other row has.
\* The model takes the canonical fresh value <<poll, ordinal>>.
AllOptionIds == PollIds \X (1..MaxOptions)
\* A well-formed uuid that names no row of poll_options.
GhostOption == <<0, 0>>
OptionInputs == AllOptionIds \cup {GhostOption}

\* expires_at TIMESTAMP (nullable): -1 stands for NULL.
NoExpiry == -1
ExpiryInputs == {NoExpiry} \cup (1..MaxTime)

\* A VARCHAR(10) column that is NULL.
NULL == 0
\* A body field the request does not carry.
undefined == -1

VARIABLES
    users,          \* table users: rows [id, role, is_active], and [email, username]
                    \* in the specifications that read them
    polls,          \* table polls: rows [id, created_by, expires_at, is_active]
    poll_id_seq,    \* sequence poll_id_seq (last value handed out)
    poll_options,   \* table poll_options: rows [id, poll_id, created_at]
    poll_votes,     \* table poll_votes: rows [id, poll_id, option_id, user_id]
    now,            \* the wall clock
    req,            \* the requests in flight, one record per connection slot
    lastVote,       \* history: the option of the latest recorded vote per <<poll, account>>
    results,        \* SpecResults: the poll object handed to getResults and what it returned
    community_events,   \* table community_events: rows [id, event_host, event_host_name]
    event_id_seq,       \* sequence event_id_seq
    blog_posts,         \* table blog_posts: rows [id, title, is_available]
    blog_id_seq,        \* sequence blog_id_seq
    timeline_posts,     \* table timeline_posts: rows [id, content]
    timeline_id_seq,    \* sequence timeline_id_seq
    role_permissions,   \* table role_permissions: rows [role, permissions]
    served,             \* the role-gated requests the server has taken up
    user_profiles,      \* table user_profiles: rows [user_id, about, phone_number]
    user_socials,       \* table user_socials: rows [user_id, github_url]
    user_addresses,     \* table user_addresses: rows [user_id, county, post_code]
    user_connections,   \* table user_connections: rows [user_id, connected_user_id, status]
    event_attendees     \* table event_attendees: rows [event_id, user_id, status, checked_in_at, checked_in_by]

pollVars == <<polls, poll_id_seq, poll_options, poll_votes>>
gateVars == <<community_events, event_id_seq, blog_posts, blog_id_seq,
              timeline_posts, timeline_id_seq, role_permissions>>
socialVars == <<user_profiles, user_socials, user_addresses, user_connections,
                event_attendees>>
vars == <<users, polls, poll_id_seq, poll_options, poll_votes, now, req, lastVote, results,
          community_events, event_id_seq, blog_posts, blog_id_seq,
          timeline_posts, timeline_id_seq, role_permissions, served,
          user_profiles, user_socials, user_addresses, user_connections, event_attendees>>

\* ------------------------------------------------------------ request slots
Anon == [id |-> 0, role |-> "none"]
NoBody == [options |-> <<>>, total_votes |-> -1]

IdleReq ==
    [kind |-> "none", pc |-> "idle", user |-> Anon, id |-> 0, found |-> FALSE,
     left |-> 0, snap |-> <<>>, role |-> "", host |-> 0, name |-> "",
     token |-> [kind |-> "none", userId |-> 0], message |-> {}, your_role |-> "",
     status |-> 0, error |-> "", body |-> NoBody]

\* res.status(s).json(...) of a request the middleware turned away.
Respond(kind, status, error) ==
    [IdleReq EXCEPT !.kind = kind, !.pc = "done", !.status = status, !.error = error]

\* res.status(s).json(...) of a handler: the request is over; its inputs (the
\* resolved user, the route's id, the body's role) and its response are kept.
Finish(r, status, error) ==
    [IdleReq EXCEPT !.kind = req[r].kind, !.pc = "done", !.user = req[r].user,
                    !.id = req[r].id, !.role = req[r].role, !.token = req[r].token,
                    !.status = status, !.error = error]

FinishBody(r, status, body) ==
    [Finish(r, status, "") EXCEPT !.body = body]

CanStart(r) == req[r].pc \in {"idle", "done"}

\* ------------------------------------------------------------ bearer tokens
\* What the Authorization header can hold: nothing, a token jwt.verify rejects
\* (JsonWebTokenError), one it finds expired (TokenExpiredError), or a valid
\* token whose claim is userId.  MaxUsers + 1 is the id of an account that
\* has no row.
Tokens ==
    {[kind |-> k, userId |-> 0] : k \in {"none", "malformed", "expired"}}
        \cup {[kind |-> "valid", userId |-> u] : u \in 1..(MaxUsers + 1)}

UserRows(id) == {u \in users : u.id = id}

\* authenticateToken: status 0 is next().  The answer keeps the header it
\* was computed from; message (the roles a refusal names) and your_role are the
\* other fields a middleware's JSON can carry, absent here.
authenticateTokenAnyActivation(tok) ==
    IF tok.kind = "none"
    THEN [status |-> 401, error |-> "Access token required", user |-> Anon, token |-> tok,
          message |-> {}, your_role |-> ""]
    ELSE IF tok.kind = "malformed"
    THEN [status |-> 401, error |-> "Invalid token", user |-> Anon, token |-> tok,
          message |-> {}, your_role |-> ""]
    ELSE IF tok.kind = "expired"
    THEN [status |-> 401, error |-> "Token expired", user |-> Anon, token |-> tok,
          message |-> {}, your_role |-> ""]
    ELSE IF UserRows(tok.userId) = {}
    THEN [status |-> 401, error |-> "Invalid token", user |-> Anon, token |-> tok,
          message |-> {}, your_role |-> ""]
    ELSE LET user == CHOOSE u \in UserRows(tok.userId) : TRUE IN
         [status |-> 0, error |-> "", user |-> [id |-> user.id, role |-> user.role],
          token |-> tok, message |-> {}, your_role |-> ""]

authenticateToken(tok) ==
    IF tok.kind = "none"
    THEN [status |-> 401, error |-> "Access token required", user |-> Anon, token |-> tok,
          message |-> {}, your_role |-> ""]
    ELSE IF tok.kind = "malformed"
    THEN [status |-> 401, error |-> "Invalid token", user |-> Anon, token |-> tok,
          message |-> {}, your_role |-> ""]
    ELSE IF tok.kind = "expired"
    THEN [status |-> 401, error |-> "Token expired", user |-> Anon, token |-> tok,
          message |-> {}, your_role |-> ""]
    ELSE IF UserRows(tok.userId) = {}
    THEN [status |-> 401, error |-> "Invalid token", user |-> Anon, token |-> tok,
          message |-> {}, your_role |-> ""]
    ELSE LET user == CHOOSE u \in UserRows(tok.userId) : TRUE IN
         IF ~user.is_active /\ user.role # "Admin"
         THEN [status |-> 403, error |-> "Account is not activated", user |-> Anon, token |-> tok,
          message |-> {}, your_role |-> ""]
         ELSE [status |-> 0, error |-> "", user |-> [id |-> user.id, role |-> user.role],
               token |-> tok, message |-> {}, your_role |-> ""]

\* ------------------------------------------------------------- Poll model
\* Poll.exists
Poll_exists(id) == \E p \in polls : p.id = id

OptionStored(oid) == \E o \in poll_options : o.id = oid

VotesOf(pollId, userId) ==
    {v \in poll_votes : v.poll_id = pollId /\ v.user_id = userId}

\* UNIQUE(poll_id, user_id) on poll_votes: the insert of a second row for the
\* pair raises unique_violation.
UniqueViolationNone(pollId, userId) == FALSE

UniqueViolation(pollId, userId) == VotesOf(pollId, userId) # {}

\* uuid_generate_v4() for a new poll_votes row: the canonical fresh value.
FreshVoteId(pollId, userId) == <<pollId, userId, Cardinality(VotesOf(pollId, userId))>>

\* The poll's option rows ORDER BY created_at, as a sequence.
RECURSIVE SortByCreated(_)
SortByCreated(rows) ==
    IF rows = {} THEN <<>>
    ELSE LET first == CHOOSE o \in rows : \A x \in rows : o.created_at <= x.created_at
         IN  <<first>> \o SortByCreated(rows \ {first})

\* SELECT po.*, COUNT(pv.id) FROM poll_options po LEFT JOIN poll_votes pv
\* ON po.id = pv.option_id WHERE po.poll_id = $1 GROUP BY po.id ORDER BY po.created_at
OptionsWithCounts(pollId) ==
    LET rows == SortByCreated({o \in poll_options : o.poll_id = pollId})
    IN  [i \in 1..Len(rows) |->
            [id |-> rows[i].id,
             vote_count |-> Cardinality({v \in poll_votes : v.option_id = rows[i].id})]]

\* SELECT COUNT(*) FROM poll_votes WHERE poll_id = $1
TotalVotes(pollId) == Cardinality({v \in poll_votes : v.poll_id = pollId})

\* Poll.findById of an existing poll, all its queries on one state of the store.
Poll_findById(pollId) ==
    [options |-> OptionsWithCounts(pollId), total_votes |-> TotalVotes(pollId)]

\* Number.prototype.toFixed(2) of (count / total) * 100: a string of the value
\* rounded to two decimals, held as its number of hundredths.  The double
\* arithmetic gives the half-up rounding of the exact ratio for every total
\* below 160.
toFixed2Truncating(count, total) ==
    [type |-> "string", hundredths |-> (count * 10000) \div total]

toFixed2(count, total) ==
    [type |-> "string", hundredths |-> (2 * count * 10000 + total) \div (2 * total)]

\* The number 0 of the total_votes = 0 branch.
ZeroNumber == [type |-> "number", hundredths |-> 0]

\* The map of Poll.getResults over the poll findById returned.
WithPercentages(poll) ==
    [poll EXCEPT !.options =
        [i \in 1..Len(poll.options) |->
            [id |-> poll.options[i].id,
             vote_count |-> poll.options[i].vote_count,
             vote_percentage |->
                IF poll.total_votes > 0
                THEN toFixed2(poll.options[i].vote_count, poll.total_votes)
                ELSE ZeroNumber]]]

\* Poll.getResults of an existing poll on one state of the store.
Poll_getResults(pollId) == WithPercentages(Poll_findById(pollId))

\* ------------------------------------------------- POST /polls/:id/vote
\* authenticateToken, then the validator of option_id, then Poll.exists is issued.
PostVote_authenticate(r) ==
    /\ CanStart(r)
    /\ \E tok \in Tokens, id \in PollIds, optionGiven \in BOOLEAN :
         LET a == authenticateToken(tok) IN
         req' = [req EXCEPT ![r] =
                    IF a.status # 0 THEN Respond("vote", a.status, a.error)
                    ELSE IF ~optionGiven THEN Respond("vote", 400, "option_id is required")
                    ELSE [IdleReq EXCEPT !.kind = "vote", !.pc = "exists",
                                         !.user = a.user, !.id = id]]
    /\ UNCHANGED <<socialVars, served, gateVars, users, pollVars, now, lastVote, results>>

\* if (!(await Poll.exists(id))) return 404
PostVote_exists(r) ==
    /\ req[r].kind = "vote" /\ req[r].pc = "exists"
    /\ req' = [req EXCEPT ![r] =
                 IF Poll_exists(req[r].id) THEN [@ EXCEPT !.pc = "select"]
                 ELSE Finish(r, 404, "Poll not found")]
    /\ UNCHANGED <<socialVars, served, gateVars, users, pollVars, now, lastVote, results>>

\* Poll.vote, first query: SELECT id FROM poll_votes WHERE poll_id AND user_id
Poll_vote_select(r) ==
    /\ req[r].kind = "vote" /\ req[r].pc = "select"
    /\ req' = [req EXCEPT ![r].pc = "write",
                          ![r].found = VotesOf(req[r].id, req[r].user.id) # {}]
    /\ UNCHANGED <<socialVars, served, gateVars, users, pollVars, now, lastVote, results>>

\* Poll.vote, second query: the UPDATE of the branch that found a row, or the
\* INSERT of the other.  option_id is the request's body value: it is read
\* here for the first time, so it is drawn here.  A store error is caught by
\* the handler's catch: 500.
Poll_vote_write(r) ==
    /\ req[r].kind = "vote" /\ req[r].pc = "write"
    /\ \E optionId \in OptionInputs :
         LET pollId == req[r].id
             userId == req[r].user.id
         IN
         IF req[r].found
         THEN IF ~OptionStored(optionId)
              THEN /\ req' = [req EXCEPT ![r] = Finish(r, 500, "foreign_key_violation")]
                   /\ UNCHANGED <<socialVars, poll_votes, lastVote>>
              ELSE /\ poll_votes' =
                         {IF v \in VotesOf(pollId, userId)
                          THEN [v EXCEPT !.option_id = optionId] ELSE v : v \in poll_votes}
                   /\ lastVote' = [lastVote EXCEPT ![<<pollId, userId>>] = optionId]
                   /\ req' = [req EXCEPT ![r].pc = "options"]
         ELSE IF UniqueViolation(pollId, userId)
              THEN /\ req' = [req EXCEPT ![r] = Finish(r, 500, "unique_violation")]
                   /\ UNCHANGED <<socialVars, poll_votes, lastVote>>
              ELSE IF ~OptionStored(optionId)
              THEN /\ req' = [req EXCEPT ![r] = Finish(r, 500, "foreign_key_violation")]
                   /\ UNCHANGED <<socialVars, poll_votes, lastVote>>
              ELSE /\ poll_votes' = poll_votes \cup
                         {[id |-> FreshVoteId(pollId, userId), poll_id |-> pollId,
                           option_id |-> optionId, user_id |-> userId]}
                   /\ lastVote' = [lastVote EXCEPT ![<<pollId, userId>>] = optionId]
                   /\ req' = [req EXCEPT ![r].pc = "options"]
    /\ UNCHANGED <<socialVars, served, gateVars, users, polls, poll_id_seq, poll_options, now, results>>

\* Poll.getResults -> Poll.findById: the poll row, its creator and the options
\* with their counts (the first two read rows no handler changes).
Poll_findById_options(r) ==
    /\ req[r].kind \in {"vote", "results"} /\ req[r].pc = "options"
    /\ req' = [req EXCEPT ![r].pc = "total", ![r].snap = OptionsWithCounts(req[r].id)]
    /\ UNCHANGED <<socialVars, served, gateVars, users, pollVars, now, lastVote, results>>

\* Poll.findById, last query: the total; getResults maps the percentages and the
\* handler answers 200 with the poll.
Poll_findById_total(r) ==
    /\ req[r].kind \in {"vote", "results"} /\ req[r].pc = "total"
    /\ req' = [req EXCEPT ![r] =
                 FinishBody(r, 200,
                     WithPercentages([options |-> req[r].snap,
                                      total_votes |-> TotalVotes(req[r].id)]))]
    /\ UNCHANGED <<socialVars, served, gateVars, users, pollVars, now, lastVote, results>>

PostVote(r) ==
    \/ PostVote_authenticate(r)
    \/ PostVote_exists(r)
    \/ Poll_vote_select(r)
    \/ Poll_vote_write(r)
    \/ Poll_findById_options(r)
    \/ Poll_findById_total(r)

\* ------------------------------------------------------- GET /polls/:id
\* No middleware.  Poll.getResults -> Poll.findById, first query: the poll row;
\* no row is null and the handler answers 404.
GetPoll_select(r) ==
    /\ CanStart(r)
    /\ \E id \in PollIds :
         req' = [req EXCEPT ![r] =
                    IF Poll_exists(id)
                    THEN [IdleReq EXCEPT !.kind = "results", !.pc = "options", !.id = id]
                    ELSE [IdleReq EXCEPT !.kind = "results", !.pc = "done", !.id = id,
                                         !.status = 404, !.error = "Poll not found"]]
    /\ UNCHANGED <<socialVars, served, gateVars, users, pollVars, now, lastVote, results>>

GetPoll(r) ==
    \/ GetPoll_select(r)
    \/ Poll_findById_options(r)
    \/ Poll_findById_total(r)

\* ------------------------------------------------------------ POST /polls
\* The create requests that have not yet drawn their id from poll_id_seq.
CreatesPending == Cardinality({r \in Req : req[r].kind = "create" /\ req[r].pc = "create"})

\* authenticateToken, then the validators (question, options of at least
\* MinOptions non-empty texts, expires_at), then Poll.create is issued.  The
\* model stops creating polls at MaxPolls.
PostPolls_authenticate(r) ==
    /\ CanStart(r)
    /\ poll_id_seq + CreatesPending < MaxPolls
    /\ \E tok \in Tokens, valid \in BOOLEAN, nOptions \in MinOptions..MaxOptions :
         LET a == authenticateToken(tok) IN
         req' = [req EXCEPT ![r] =
                    IF a.status # 0 THEN Respond("create", a.status, a.error)
                    ELSE IF ~valid THEN Respond("create", 400, "validation")
                    ELSE [IdleReq EXCEPT !.kind = "create", !.pc = "create",
                                         !.user = a.user, !.left = nOptions]]
    /\ UNCHANGED <<socialVars, served, gateVars, users, pollVars, now, lastVote, results>>

\* Poll.create: INSERT INTO polls; the trigger numbers the row from poll_id_seq,
\* is_active takes its default TRUE.  expires_at is read here for the first time.
Poll_create(r) ==
    /\ req[r].kind = "create" /\ req[r].pc = "create"
    /\ \E expires_at \in ExpiryInputs :
         polls' = polls \cup {[id |-> poll_id_seq + 1, created_by |-> req[r].user.id,
                               expires_at |-> expires_at, is_active |-> TRUE]}
    /\ poll_id_seq' = poll_id_seq + 1
    /\ req' = [req EXCEPT ![r].pc = "addOptions", ![r].id = poll_id_seq + 1]
    /\ UNCHANGED <<socialVars, served, gateVars, users, poll_options, poll_votes, now, lastVote, results>>

\* Poll.addOptions: one INSERT INTO poll_options per option text, in order; after
\* the last one the handler answers 201.
Poll_addOptions(r) ==
    /\ req[r].kind = "create" /\ req[r].pc = "addOptions"
    /\ LET k == Cardinality({o \in poll_options : o.poll_id = req[r].id}) + 1 IN
       poll_options' = poll_options \cup
           {[id |-> <<req[r].id, k>>, poll_id |-> req[r].id, created_at |-> k]}
    /\ req' = [req EXCEPT ![r] =
                 IF req[r].left = 1 THEN Finish(r, 201, "")
                 ELSE [@ EXCEPT !.left = @ - 1]]
    /\ UNCHANGED <<socialVars, served, gateVars, users, polls, poll_id_seq, poll_votes, now, lastVote, results>>

PostPolls(r) ==
    \/ PostPolls_authenticate(r)
    \/ Poll_create(r)
    \/ Poll_addOptions(r)

\* Time passes.
Tick ==
    /\ now < MaxTime
    /\ now' = now + 1
    /\ UNCHANGED <<socialVars, served, gateVars, users, pollVars, req, lastVote, results>>

\* ------------------------------------------------------------ role gate
\* checkRoleAccess(requiredRoles): next() when the list is empty or holds req.user.role.
checkRoleAccessInherit(requiredRoles, userRole) ==
    \/ requiredRoles = {}
    \/ userRole \in requiredRoles
    \/ userRole = "President" /\ "Secretary" \in requiredRoles

checkRoleAccess(requiredRoles, userRole) ==
    requiredRoles = {} \/ userRole \in requiredRoles

\* The lists the routes declare.
EventRoles == {"Admin", "Secretary"}
BlogRoles == {"Admin", "Secretary"}
TimelineRoles == {"Admin", "President"}
AdminRoles == {"Admin"}

\* authenticateToken, then checkRoleAccess(requiredRoles): status 0 is next().
\* The 403 of the gate carries your_role.
Gate(requiredRoles, tok) ==
    LET a == authenticateToken(tok) IN
    IF a.status # 0 \/ checkRoleAccess(requiredRoles, a.user.role) THEN a
    ELSE [status |-> 403, error |-> "Access denied", user |-> a.user, token |-> tok,
          message |-> requiredRoles, your_role |-> a.user.role]

Refuse(kind, g) ==
    [Respond(kind, g.status, g.error) EXCEPT !.user = g.user, !.token = g.token,
                                             !.message = g.message, !.your_role = g.your_role]

Accept(kind, pc, g, id) ==
    [IdleReq EXCEPT !.kind = kind, !.pc = pc, !.user = g.user, !.id = id, !.token = g.token]

\* The requests of a route that are past the middleware and not yet answered.
Pending(kind) ==
    Cardinality({r \in Req : req[r].kind = kind /\ req[r].pc \notin {"idle", "done"}})

At(r, kind, pc) == req[r].kind = kind /\ req[r].pc = pc

\* The server takes up a role-gated request; the model stops at MaxServed.
Serve == served < MaxServed /\ served' = served + 1

\* Free text of a body field (title, content).
Texts == 1..MaxText

\* ----------------------------------------------------------------- events
\* event_host of a body: absent, the id of account 1, or an id no account has.
EventHostInputs == {undefined, 1, MaxUsers + 1}
\* event_host_name of a body: absent or a name.
HostNameInputs == {"undefined", "Ann"}
EventIdInputs == 1..(MaxEvents + 1)

\* event_host_name || null
OrNull(name) == IF name = "undefined" THEN "" ELSE name

Event_exists(id) == \E e \in community_events : e.id = id

\* POST /events: the middleware, the validators (event_name, event_date), then
\* the host of the new event up to the first query.
PostEvents_authenticate(r) ==
    /\ CanStart(r)
    /\ Serve
    /\ event_id_seq + Pending("POST /events") < MaxEvents
    /\ \E tok \in Tokens, valid \in BOOLEAN,
          event_host \in EventHostInputs, event_host_name \in HostNameInputs :
         LET g == Gate(EventRoles, tok) IN
         req' = [req EXCEPT ![r] =
                    IF g.status # 0 THEN Refuse("POST /events", g)
                    ELSE IF ~valid THEN Refuse("POST /events", [g EXCEPT !.status = 400, !.error = "validation"])
                    ELSE IF event_host # undefined
                    THEN [Accept("POST /events", "findHost", g, 0) EXCEPT
                              !.host = event_host, !.name = OrNull(event_host_name)]
                    ELSE IF OrNull(event_host_name) = ""
                    THEN [Accept("POST /events", "create", g, 0) EXCEPT !.host = g.user.id]
                    ELSE [Accept("POST /events", "create", g, 0) EXCEPT
                              !.host = NULL, !.name = event_host_name]]
    /\ UNCHANGED <<socialVars, gateVars, users, pollVars, now, lastVote, results>>

\* const hostUser = await User.findById(event_host)
PostEvents_findHost(r) ==
    /\ At(r, "POST /events", "findHost")
    /\ req' = [req EXCEPT ![r] =
                 IF UserRows(req[r].host) # {} THEN [@ EXCEPT !.pc = "create"]
                 ELSE [@ EXCEPT !.pc = "create", !.host = NULL,
                                !.name = IF @ # "" THEN @ ELSE ToString(req[r].host)]]
    /\ UNCHANGED <<socialVars, served, gateVars, users, pollVars, now, lastVote, results>>

\* Event.create: INSERT INTO community_events; the trigger numbers the row.
Event_create(r) ==
    /\ At(r, "POST /events", "create")
    /\ community_events' = community_events \cup
           {[id |-> event_id_seq + 1, event_host |-> req[r].host,
             event_host_name |-> req[r].name]}
    /\ event_id_seq' = event_id_seq + 1
    /\ req' = [req EXCEPT ![r] = [Finish(r, 201, "") EXCEPT !.id = event_id_seq + 1]]
    /\ UNCHANGED <<socialVars, served, blog_posts, blog_id_seq, timeline_posts, timeline_id_seq, role_permissions,
                   users, pollVars, now, lastVote, results>>

\* PUT /events/:id and DELETE /events/:id: the middleware (PUT: and the validators).
Events_authenticate(r) ==
    /\ CanStart(r)
    /\ Serve
    /\ \E kind \in {"PUT /events/:id", "DELETE /events/:id"},
          tok \in Tokens, valid \in BOOLEAN, id \in EventIdInputs :
         LET g == Gate(EventRoles, tok) IN
         req' = [req EXCEPT ![r] =
                    IF g.status # 0 THEN Refuse(kind, g)
                    ELSE IF kind = "PUT /events/:id" /\ ~valid
                    THEN Refuse(kind, [g EXCEPT !.status = 400, !.error = "validation"])
                    ELSE Accept(kind, "exists", g, id)]
    /\ UNCHANGED <<socialVars, gateVars, users, pollVars, now, lastVote, results>>

\* PUT: if (!(await Event.exists(id))) return 404; then updateFields up to the
\* next query.  host, name = undefined: the field is not in updateFields.
PutEvents_exists(r) ==
    /\ At(r, "PUT /events/:id", "exists")
    /\ \E event_host \in EventHostInputs, event_host_name \in HostNameInputs :
         req' = [req EXCEPT ![r] =
                    IF ~Event_exists(req[r].id) THEN Finish(r, 404, "Event not found")
                    ELSE IF event_host # undefined
                    THEN [@ EXCEPT !.pc = "findHost", !.host = event_host, !.name = event_host_name]
                    ELSE [@ EXCEPT !.pc = "update", !.host = undefined,
                                   !.name = IF event_host_name = "undefined"
                                            THEN "undefined" ELSE OrNull(event_host_name)]]
    /\ UNCHANGED <<socialVars, served, gateVars, users, pollVars, now, lastVote, results>>

\* PUT: const hostUser = await User.findById(event_host)
PutEvents_findHost(r) ==
    /\ At(r, "PUT /events/:id", "findHost")
    /\ req' = [req EXCEPT ![r] =
                 IF UserRows(req[r].host) # {}
                 THEN [@ EXCEPT !.pc = "update", !.name = ""]
                 ELSE [@ EXCEPT !.pc = "update", !.host = NULL,
                                !.name = IF OrNull(@) # "" THEN @ ELSE ToString(req[r].host)]]
    /\ UNCHANGED <<socialVars, served, gateVars, users, pollVars, now, lastVote, results>>

\* Event.update: UPDATE community_events SET the fields of updateFields.
Event_update(r) ==
    /\ At(r, "PUT /events/:id", "update")
    /\ community_events' =
           {IF e.id # req[r].id THEN e
            ELSE [e EXCEPT !.event_host = IF req[r].host = undefined THEN @ ELSE req[r].host,
                           !.event_host_name = IF req[r].name = "undefined" THEN @ ELSE req[r].name]
            : e \in community_events}
    /\ req' = [req EXCEPT ![r] = Finish(r, 200, "")]
    /\ UNCHANGED <<socialVars, served, event_id_seq, blog_posts, blog_id_seq, timeline_posts, timeline_id_seq,
                   role_permissions, users, pollVars, now, lastVote, results>>

\* DELETE: if (!(await Event.exists(id))) return 404
DeleteEvents_exists(r) ==
    /\ At(r, "DELETE /events/:id", "exists")
    /\ req' = [req EXCEPT ![r] =
                 IF Event_exists(req[r].id) THEN [@ EXCEPT !.pc = "delete"]
                 ELSE Finish(r, 404, "Event not found")]
    /\ UNCHANGED <<socialVars, served, gateVars, users, pollVars, now, lastVote, results>>

\* Event.delete
Event_delete(r) ==
    /\ At(r, "DELETE /events/:id", "delete")
    /\ community_events' = {e \in community_events : e.id # req[r].id}
    /\ req' = [req EXCEPT ![r] = Finish(r, 200, "")]
    /\ UNCHANGED <<socialVars, served, event_id_seq, blog_posts, blog_id_seq, timeline_posts, timeline_id_seq,
                   role_permissions, users, pollVars, now, lastVote, results>>

EventRoutes(r) ==
    \/ PostEvents_authenticate(r)
    \/ PostEvents_findHost(r)
    \/ Event_create(r)
    \/ Events_authenticate(r)
    \/ PutEvents_exists(r)
    \/ PutEvents_findHost(r)
    \/ Event_update(r)
    \/ DeleteEvents_exists(r)
    \/ Event_delete(r)

\* ------------------------------------------------------------------ blogs
BlogIdInputs == 1..(MaxBlogs + 1)
TextInputs == {undefined} \cup Texts

Blog_exists(id) == \E b \in blog_posts : b.id = id

\* POST /blogs: the middleware and the validators (title, blog_content).
PostBlogs_authenticate(r) ==
    /\ CanStart(r)
    /\ Serve
    /\ blog_id_seq + Pending("POST /blogs") < MaxBlogs
    /\ \E tok \in Tokens, valid \in BOOLEAN :
         LET g == Gate(BlogRoles, tok) IN
         req' = [req EXCEPT ![r] =
                    IF g.status # 0 THEN Refuse("POST /blogs", g)
                    ELSE IF ~valid THEN Refuse("POST /blogs", [g EXCEPT !.status = 400, !.error = "validation"])
                    ELSE Accept("POST /blogs", "create", g, 0)]
    /\ UNCHANGED <<socialVars, gateVars, users, pollVars, now, lastVote, results>>

\* Blog.create with is_available = req.user.role === 'Admin'
Blog_create(r) ==
    /\ At(r, "POST /blogs", "create")
    /\ \E title \in Texts :
         blog_posts' = blog_posts \cup
             {[id |-> blog_id_seq + 1, title |-> title, author_id |-> req[r].user.id,
               is_available |-> (req[r].user.role = "Admin")]}
    /\ blog_id_seq' = blog_id_seq + 1
    /\ req' = [req EXCEPT ![r] = [Finish(r, 201, "") EXCEPT !.id = blog_id_seq + 1]]
    /\ UNCHANGED <<socialVars, served, community_events, event_id_seq, timeline_posts, timeline_id_seq,
                   role_permissions, users, pollVars, now, lastVote, results>>

\* PUT /blogs/:id and DELETE /blogs/:id: the middleware (PUT: and the validators).
Blogs_authenticate(r) ==
    /\ CanStart(r)
    /\ Serve
    /\ \E kind \in {"PUT /blogs/:id", "DELETE /blogs/:id"},
          tok \in Tokens, valid \in BOOLEAN, id \in BlogIdInputs :
         LET g == Gate(BlogRoles, tok) IN
         req' = [req EXCEPT ![r] =
                    IF g.status # 0 THEN Refuse(kind, g)
                    ELSE IF kind = "PUT /blogs/:id" /\ ~valid
                    THEN Refuse(kind, [g EXCEPT !.status = 400, !.error = "validation"])
                    ELSE Accept(kind, "exists", g, id)]
    /\ UNCHANGED <<socialVars, gateVars, users, pollVars, now, lastVote, results>>

\* if (!(await Blog.exists(id))) return 404
Blogs_exists(r) ==
    /\ req[r].kind \in {"PUT /blogs/:id", "DELETE /blogs/:id"}
    /\ req[r].pc = "exists"
    /\ req' = [req EXCEPT ![r] =
                 IF Blog_exists(req[r].id) THEN [@ EXCEPT !.pc = "write"]
                 ELSE Finish(r, 404, "Blog post not found")]
    /\ UNCHANGED <<socialVars, served, gateVars, users, pollVars, now, lastVote, results>>

\* Blog.update(id, { title, blog_content }): no field, no query.
Blog_update(r) ==
    /\ At(r, "PUT /blogs/:id", "write")
    /\ \E title \in TextInputs :
         blog_posts' = {IF b.id = req[r].id /\ title # undefined
                        THEN [b EXCEPT !.title = title] ELSE b : b \in blog_posts}
    /\ req' = [req EXCEPT ![r] = Finish(r, 200, "")]
    /\ UNCHANGED <<socialVars, served, community_events, event_id_seq, blog_id_seq, timeline_posts, timeline_id_seq,
                   role_permissions, users, pollVars, now, lastVote, results>>

\* Blog.delete
Blog_delete(r) ==
    /\ At(r, "DELETE /blogs/:id", "write")
    /\ blog_posts' = {b \in blog_posts : b.id # req[r].id}
    /\ req' = [req EXCEPT ![r] = Finish(r, 200, "")]
    /\ UNCHANGED <<socialVars, served, community_events, event_id_seq, blog_id_seq, timeline_posts, timeline_id_seq,
                   role_permissions, users, pollVars, now, lastVote, results>>

BlogRoutes(r) ==
    \/ PostBlogs_authenticate(r)
    \/ Blog_create(r)
    \/ Blogs_authenticate(r)
    \/ Blogs_exists(r)
    \/ Blog_update(r)
    \/ Blog_delete(r)

\* Blog.findAll(showUnapproved): the rows (ORDER BY created_at DESC, here a set).
Blog_findAllUnfiltered(showUnapproved) == blog_posts

Blog_findAll(showUnapproved) ==
    IF showUnapproved THEN blog_posts ELSE {b \in blog_posts : b.is_available}

\* GET /blogs, the optional token: isAdmin (kept in found) when jwt.verify
\* and User.findById give an account whose role is Admin; any error is
\* swallowed.
GetBlogs_resolve(r) ==
    /\ CanStart(r)
    /\ \E tok \in Tokens :
         req' = [req EXCEPT ![r] =
                    [IdleReq EXCEPT !.kind = "GET /blogs", !.pc = "findAll", !.token = tok,
                                    !.found = /\ tok.kind = "valid"
                                              /\ \E u \in UserRows(tok.userId) : u.role = "Admin"]]
    /\ UNCHANGED <<served, socialVars, gateVars, users, pollVars, now, lastVote, results>>

\* const blogs = await Blog.findAll(isAdmin); res.json({ blogs })
GetBlogs_findAll(r) ==
    /\ At(r, "GET /blogs", "findAll")
    /\ req' = [req EXCEPT ![r] =
                 [FinishBody(r, 200, Blog_findAll(req[r].found)) EXCEPT !.found = req[r].found]]
    /\ UNCHANGED <<served, socialVars, gateVars, users, pollVars, now, lastVote, results>>

\* --------------------------------------------------------------- timeline
PostIdInputs == 1..(MaxPosts + 1)

Timeline_exists(id) == \E t \in timeline_posts : t.id = id

\* POST /timeline: the middleware and the validators (content, the urls).
PostTimeline_authenticate(r) ==
    /\ CanStart(r)
    /\ Serve
    /\ timeline_id_seq + Pending("POST /timeline") < MaxPosts
    /\ \E tok \in Tokens, valid \in BOOLEAN :
         LET g == Gate(TimelineRoles, tok) IN
         req' = [req EXCEPT ![r] =
                    IF g.status # 0 THEN Refuse("POST /timeline", g)
                    ELSE IF ~valid THEN Refuse("POST /timeline", [g EXCEPT !.status = 400, !.error = "validation"])
                    ELSE Accept("POST /timeline", "create", g, 0)]
    /\ UNCHANGED <<socialVars, gateVars, users, pollVars, now, lastVote, results>>

\* Timeline.create
Timeline_create(r) ==
    /\ At(r, "POST /timeline", "create")
    /\ \E content \in Texts :
         timeline_posts' = timeline_posts \cup {[id |-> timeline_id_seq + 1, content |-> content]}
    /\ timeline_id_seq' = timeline_id_seq + 1
    /\ req' = [req EXCEPT ![r] = [Finish(r, 201, "") EXCEPT !.id = timeline_id_seq + 1]]
    /\ UNCHANGED <<socialVars, served, community_events, event_id_seq, blog_posts, blog_id_seq,
                   role_permissions, users, pollVars, now, lastVote, results>>

\* PUT /timeline/:id and DELETE /timeline/:id: the middleware (PUT: and the validators).
Timeline_authenticate(r) ==
    /\ CanStart(r)
    /\ Serve
    /\ \E kind \in {"PUT /timeline/:id", "DELETE /timeline/:id"},
          tok \in Tokens, valid \in BOOLEAN, id \in PostIdInputs :
         LET g == Gate(TimelineRoles, tok) IN
         req' = [req EXCEPT ![r] =
                    IF g.status # 0 THEN Refuse(kind, g)
                    ELSE IF kind = "PUT /timeline/:id" /\ ~valid
                    THEN Refuse(kind, [g EXCEPT !.status = 400, !.error = "validation"])
                    ELSE Accept(kind, "exists", g, id)]
    /\ UNCHANGED <<socialVars, gateVars, users, pollVars, now, lastVote, results>>

\* if (!(await Timeline.exists(id))) return 404
Timeline_exists_step(r) ==
    /\ req[r].kind \in {"PUT /timeline/:id", "DELETE /timeline/:id"}
    /\ req[r].pc = "exists"
    /\ req' = [req EXCEPT ![r] =
                 IF Timeline_exists(req[r].id) THEN [@ EXCEPT !.pc = "write"]
                 ELSE Finish(r, 404, "Timeline post not found")]
    /\ UNCHANGED <<socialVars, served, gateVars, users, pollVars, now, lastVote, results>>

\* Timeline.update(id, updateFields): no field, no query.
Timeline_update(r) ==
    /\ At(r, "PUT /timeline/:id", "write")
    /\ \E content \in TextInputs :
         timeline_posts' = {IF t.id = req[r].id /\ content # undefined
                            THEN [t EXCEPT !.content = content] ELSE t : t \in timeline_posts}
    /\ req' = [req EXCEPT ![r] = Finish(r, 200, "")]
    /\ UNCHANGED <<socialVars, served, community_events, event_id_seq, blog_posts, blog_id_seq, timeline_id_seq,
                   role_permissions, users, pollVars, now, lastVote, results>>

\* Timeline.delete
Timeline_delete(r) ==
    /\ At(r, "DELETE /timeline/:id", "write")
    /\ timeline_posts' = {t \in timeline_posts : t.id # req[r].id}
    /\ req' = [req EXCEPT ![r] = Finish(r, 200, "")]
    /\ UNCHANGED <<socialVars, served, community_events, event_id_seq, blog_posts, blog_id_seq, timeline_id_seq,
                   role_permissions, users, pollVars, now, lastVote, results>>

TimelineRoutes(r) ==
    \/ PostTimeline_authenticate(r)
    \/ Timeline_create(r)
    \/ Timeline_authenticate(r)
    \/ Timeline_exists_step(r)
    \/ Timeline_update(r)
    \/ Timeline_delete(r)

\* ------------------------------------------------------------------ admin
\* role of a body: a value of the enum or another string.
RoleInputs == Roles \cup {"Guest"}
UserIdInputs == 1..(MaxUsers + 1)

\* Prevent self-demotion of admin: req.user.id === userId && role !== 'Admin'
SelfDemotionNever(user, userId, role) == FALSE

SelfDemotion(user, userId, role) == user.id = userId /\ role # "Admin"

\* PUT /admin/users/:userId/role: the middleware, the validator of role, the
\* self-demotion guard, then User.findById is issued.
PutRole_authenticate(r) ==
    /\ CanStart(r)
    /\ Serve
    /\ \E tok \in Tokens, userId \in UserIdInputs, role \in RoleInputs :
         LET g == Gate(AdminRoles, tok)
             kind == "PUT /admin/users/:userId/role"
             held == [Accept(kind, "findById", g, userId) EXCEPT !.role = role]
         IN
         req' = [req EXCEPT ![r] =
                    IF g.status # 0 THEN Refuse(kind, g)
                    ELSE IF role \notin Roles
                    THEN [held EXCEPT !.pc = "done", !.status = 400, !.error = "Invalid role"]
                    ELSE IF SelfDemotion(g.user, userId, role)
                    THEN [held EXCEPT !.pc = "done", !.status = 400,
                                      !.error = "You cannot change your own role from Admin"]
                    ELSE held]
    /\ UNCHANGED <<socialVars, gateVars, users, pollVars, now, lastVote, results>>

\* PUT /admin/users/:userId/activate: the middleware and the validator of is_active.
PutActivate_authenticate(r) ==
    /\ CanStart(r)
    /\ Serve
    /\ \E tok \in Tokens, userId \in UserIdInputs, valid \in BOOLEAN :
         LET g == Gate(AdminRoles, tok)
             kind == "PUT /admin/users/:userId/activate"
         IN
         req' = [req EXCEPT ![r] =
                    IF g.status # 0 THEN Refuse(kind, g)
                    ELSE IF ~valid THEN Refuse(kind, [g EXCEPT !.status = 400, !.error = "validation"])
                    ELSE Accept(kind, "findById", g, userId)]
    /\ UNCHANGED <<socialVars, gateVars, users, pollVars, now, lastVote, results>>

\* const existingUser = await User.findById(userId); if (!existingUser) return 404
Admin_findById(r) ==
    /\ req[r].kind \in {"PUT /admin/users/:userId/role", "PUT /admin/users/:userId/activate"}
    /\ req[r].pc = "findById"
    /\ req' = [req EXCEPT ![r] =
                 IF UserRows(req[r].id) # {} THEN [@ EXCEPT !.pc = "update"]
                 ELSE Finish(r, 404, "User not found")]
    /\ UNCHANGED <<socialVars, served, gateVars, users, pollVars, now, lastVote, results>>

\* User.updateRole
User_updateRole(r) ==
    /\ At(r, "PUT /admin/users/:userId/role", "update")
    /\ users' = {IF u.id = req[r].id THEN [u EXCEPT !.role = req[r].role] ELSE u : u \in users}
    /\ req' = [req EXCEPT ![r] = Finish(r, 200, "")]
    /\ UNCHANGED <<socialVars, served, gateVars, pollVars, now, lastVote, results>>

\* User.updateActiveStatus
User_updateActiveStatus(r) ==
    /\ At(r, "PUT /admin/users/:userId/activate", "update")
    /\ \E is_active \in BOOLEAN :
         users' = {IF u.id = req[r].id THEN [u EXCEPT !.is_active = is_active] ELSE u : u \in users}
    /\ req' = [req EXCEPT ![r] = Finish(r, 200, "")]
    /\ UNCHANGED <<socialVars, served, gateVars, pollVars, now, lastVote, results>>

\* PUT /admin/blogs/:id/approve: the middleware.
PutApprove_authenticate(r) ==
    /\ CanStart(r)
    /\ Serve
    /\ \E tok \in Tokens, id \in BlogIdInputs :
         LET g == Gate(AdminRoles, tok)
             kind == "PUT /admin/blogs/:id/approve"
         IN
         req' = [req EXCEPT ![r] =
                    IF g.status # 0 THEN Refuse(kind, g) ELSE Accept(kind, "exists", g, id)]
    /\ UNCHANGED <<socialVars, gateVars, users, pollVars, now, lastVote, results>>

\* if (!(await Blog.exists(id))) return 404
PutApprove_exists(r) ==
    /\ At(r, "PUT /admin/blogs/:id/approve", "exists")
    /\ req' = [req EXCEPT ![r] =
                 IF Blog_exists(req[r].id) THEN [@ EXCEPT !.pc = "write"]
                 ELSE Finish(r, 404, "Blog post not found")]
    /\ UNCHANGED <<socialVars, served, gateVars, users, pollVars, now, lastVote, results>>

\* Blog.approve: UPDATE blog_posts SET is_available = true
Blog_approve(r) ==
    /\ At(r, "PUT /admin/blogs/:id/approve", "write")
    /\ blog_posts' = {IF b.id = req[r].id THEN [b EXCEPT !.is_available = TRUE] ELSE b
                      : b \in blog_posts}
    /\ req' = [req EXCEPT ![r] = Finish(r, 200, "")]
    /\ UNCHANGED <<socialVars, served, community_events, event_id_seq, blog_id_seq, timeline_posts, timeline_id_seq,
                   role_permissions, users, pollVars, now, lastVote, results>>

\* permissions of a body, and the :role of the path.
PermissionInputs == {{"view_events"}}
RoleParamInputs == {"Member", "Guest"}

\* PUT /admin/roles/:role: the middleware, the validators of permissions and
\* validRoles.includes(role), then RolePermission.update is issued.
PutRolePermissions_authenticate(r) ==
    /\ CanStart(r)
    /\ Serve
    /\ \E tok \in Tokens, valid \in BOOLEAN, role \in RoleParamInputs :
         LET g == Gate(AdminRoles, tok)
             kind == "PUT /admin/roles/:role"
         IN
         req' = [req EXCEPT ![r] =
                    IF g.status # 0 THEN Refuse(kind, g)
                    ELSE IF ~valid THEN Refuse(kind, [g EXCEPT !.status = 400, !.error = "validation"])
                    ELSE IF role \notin Roles
                    THEN Refuse(kind, [g EXCEPT !.status = 400, !.error = "Invalid role"])
                    ELSE [Accept(kind, "update", g, 0) EXCEPT !.role = role]]
    /\ UNCHANGED <<socialVars, gateVars, users, pollVars, now, lastVote, results>>

\* RolePermission.update; no row: 404
RolePermission_update(r) ==
    /\ At(r, "PUT /admin/roles/:role", "update")
    /\ \E permissions \in PermissionInputs :
         role_permissions' = {IF p.role = req[r].role THEN [p EXCEPT !.permissions = permissions]
                              ELSE p : p \in role_permissions}
    /\ req' = [req EXCEPT ![r] =
                 IF \E p \in role_permissions : p.role = req[r].role
                 THEN Finish(r, 200, "") ELSE Finish(r, 404, "Role not found")]
    /\ UNCHANGED <<socialVars, served, community_events, event_id_seq, blog_posts, blog_id_seq,
                   timeline_posts, timeline_id_seq, users, pollVars, now, lastVote, results>>

AdminRoutes(r) ==
    \/ PutRole_authenticate(r)
    \/ PutActivate_authenticate(r)
    \/ Admin_findById(r)
    \/ User_updateRole(r)
    \/ User_updateActiveStatus(r)
    \/ PutApprove_authenticate(r)
    \/ PutApprove_exists(r)
    \/ Blog_approve(r)
    \/ PutRolePermissions_authenticate(r)
    \/ RolePermission_update(r)

\* --------------------------------------------------------------- profiles
\* A path parameter is a string: the text of a users.id or a username.  An
\* optional value is a sequence: <<>> is undefined (absent from the JSON).
IdText(id) == ToString(id)
UsernameOf(u) == "user" \o ToString(u)
EmailOf(u) == "user" \o ToString(u) \o "@potluck.org"
IdentifierInputs ==
    {IdText(u) : u \in 1..(MaxUsers + 1)} \cup {UsernameOf(u) : u \in 1..(MaxUsers + 1)}

\* User.findById: SELECT ... FROM users WHERE id = $1
User_findById(id) == {u \in users : IdText(u.id) = id}
\* User.findByUsername: SELECT ... FROM users WHERE username = $1
User_findByUsername(username) == {u \in users : u.username = username}

\* profile || {}, address || {}, socials || {}
EmptyProfile == [user_id |-> undefined, about |-> <<>>, phone_number |-> <<>>]
EmptyAddress == [user_id |-> undefined, county |-> <<>>, post_code |-> <<>>]
EmptySocials == [user_id |-> undefined, github_url |-> <<>>]

RowOr(rows, empty) == IF rows = {} THEN empty ELSE CHOOSE x \in rows : TRUE

UserProfile_findByUserId(userId) == {p \in user_profiles : p.user_id = userId}
UserSocials_findByUserId(userId) == {p \in user_socials : p.user_id = userId}
UserAddress_findByUserId(userId) == {p \in user_addresses : p.user_id = userId}

\* Connection.getConnectionStatus: the row of the pair in either direction.
Connection_getConnectionStatus(userId, targetUserId) ==
    {c \in user_connections :
        \/ c.user_id = userId /\ c.connected_user_id = targetUserId
        \/ c.user_id = targetUserId /\ c.connected_user_id = userId}

\* Connection.getConnectionCount
Connection_getConnectionCount(userId) ==
    Cardinality({c \in user_connections :
        (c.user_id = userId \/ c.connected_user_id = userId) /\ c.status = "accepted"})

\* EventAttendee.countCheckedInForUser
EventAttendee_countCheckedInForUser(userId) ==
    Cardinality({a \in event_attendees : a.user_id = userId /\ a.status = "checked_in"})

\* canViewPrivate of GET /profile/:identifier
canViewPrivateNever(viewer, user) == FALSE

canViewPrivate(viewer, user) ==
    viewer.role = "Admin" \/ viewer.role = "President" \/ viewer.id = user.id

\* location: county, then ", " and the post code when there is one.
Location(addressData) ==
    IF addressData.county = <<>> THEN <<"Not specified">>
    ELSE addressData.county \o addressData.post_code

\* The response object of GET /profile/:identifier (name, title and
\* memberSince, built from the username, the role and created_at, are left out).
ProfileResponse(viewer, user, profileData, socialsData, addressData, counts) ==
    [id |-> user.id,
     location |-> Location(addressData),
     bio |-> IF profileData.about = <<>> THEN <<"No bio available.">> ELSE profileData.about,
     email |-> IF canViewPrivate(viewer, user) THEN <<user.email>> ELSE <<>>,
     phone |-> IF canViewPrivate(viewer, user) THEN profileData.phone_number ELSE <<>>,
     eventsAttended |-> counts.attended,
     eventsHosted |-> counts.hosted,
     connections |-> counts.connections,
     connectionStatus |-> counts.status,
     user |-> [id |-> user.id,
               email |-> IF canViewPrivate(viewer, user) THEN <<user.email>> ELSE <<>>,
               username |-> user.username, role |-> user.role],
     profile |-> IF canViewPrivate(viewer, user) THEN profileData
                 ELSE [EmptyProfile EXCEPT !.about = profileData.about],
     socials |-> socialsData,
     address |-> IF canViewPrivate(viewer, user) THEN <<addressData>> ELSE <<>>]

\* GET /profile/:identifier, the optional token: a valid token of a stored
\* account gives its id and role (User.findById); anything else leaves
\* currentUserId null and currentUserRole 'Member'.
NoViewer == [id |-> NULL, role |-> "Member"]

OptionalViewer(tok) ==
    IF tok.kind = "valid" /\ UserRows(tok.userId) # {}
    THEN LET u == CHOOSE u \in UserRows(tok.userId) : TRUE IN [id |-> u.id, role |-> u.role]
    ELSE NoViewer

GetProfile_resolve(r) ==
    /\ CanStart(r)
    /\ Serve
    /\ \E tok \in Tokens, identifier \in IdentifierInputs :
         req' = [req EXCEPT ![r] =
                    [IdleReq EXCEPT !.kind = "GET /profile/:identifier", !.pc = "findById",
                                    !.user = OptionalViewer(tok), !.name = identifier,
                                    !.token = tok]]
    /\ UNCHANGED <<socialVars, gateVars, users, pollVars, now, lastVote, results>>

\* user = await User.findById(identifier)
GetProfile_findById(r) ==
    /\ At(r, "GET /profile/:identifier", "findById")
    /\ req' = [req EXCEPT ![r] =
                 IF User_findById(req[r].name) # {}
                 THEN [@ EXCEPT !.pc = "connections",
                                !.id = (CHOOSE u \in User_findById(req[r].name) : TRUE).id]
                 ELSE [@ EXCEPT !.pc = "findByUsername"]]
    /\ UNCHANGED <<served, socialVars, gateVars, users, pollVars, now, lastVote, results>>

\* if (!user) user = await User.findByUsername(identifier); if (!user) return 404
GetProfile_findByUsername(r) ==
    /\ At(r, "GET /profile/:identifier", "findByUsername")
    /\ req' = [req EXCEPT ![r] =
                 IF User_findByUsername(req[r].name) # {}
                 THEN [@ EXCEPT !.pc = "connections",
                                !.id = (CHOOSE u \in User_findByUsername(req[r].name) : TRUE).id]
                 ELSE Finish(r, 404, "User not found")]
    /\ UNCHANGED <<served, socialVars, gateVars, users, pollVars, now, lastVote, results>>

\* Promise.all([Connection.getConnectionCount, Connection.getConnectionStatus])
GetProfile_connections(r) ==
    /\ At(r, "GET /profile/:identifier", "connections")
    /\ req' = [req EXCEPT ![r].pc = "read",
                          ![r].left = Connection_getConnectionCount(req[r].id),
                          ![r].snap =
                              IF req[r].user.id = NULL THEN <<>>
                              ELSE LET rows == Connection_getConnectionStatus(req[r].user.id, req[r].id)
                                   IN  IF rows = {} THEN <<>> ELSE <<(CHOOSE c \in rows : TRUE).status>>]
    /\ UNCHANGED <<served, socialVars, gateVars, users, pollVars, now, lastVote, results>>

\* Promise.all of the profile, socials, address and the two event counts, then
\* the response.  The account row is the one the lookup returned; no modelled
\* request changes its email or username.
GetProfile_read(r) ==
    /\ At(r, "GET /profile/:identifier", "read")
    /\ LET user == CHOOSE u \in UserRows(req[r].id) : TRUE
           counts == [attended |-> EventAttendee_countCheckedInForUser(user.id),
                      hosted |-> Cardinality({e \in community_events : e.event_host = user.id}),
                      connections |-> req[r].left,
                      status |-> req[r].snap]
       IN  req' = [req EXCEPT ![r] =
                     FinishBody(r, 200,
                         ProfileResponse(req[r].user, user,
                             RowOr(UserProfile_findByUserId(user.id), EmptyProfile),
                             RowOr(UserSocials_findByUserId(user.id), EmptySocials),
                             RowOr(UserAddress_findByUserId(user.id), EmptyAddress),
                             counts))]
    /\ UNCHANGED <<served, socialVars, gateVars, users, pollVars, now, lastVote, results>>

\* PUT /profile/:username: authenticateToken and the validators, then
\* User.findByUsername is issued.
PutProfile_authenticate(r) ==
    /\ CanStart(r)
    /\ Serve
    /\ \E tok \in Tokens, valid \in BOOLEAN, u \in 1..(MaxUsers + 1) :
         LET a == authenticateToken(tok)
             kind == "PUT /profile/:username"
         IN
         req' = [req EXCEPT ![r] =
                    IF a.status # 0 THEN Refuse(kind, a)
                    ELSE IF ~valid THEN Refuse(kind, [a EXCEPT !.status = 400, !.error = "validation"])
                    ELSE [Accept(kind, "findByUsername", a, 0) EXCEPT !.name = UsernameOf(u)]]
    /\ UNCHANGED <<socialVars, gateVars, users, pollVars, now, lastVote, results>>

\* The check of PUT /profile/:username: the user themselves, Admin or President.
mayUpdateProfileAnyone(currentUser, targetUserId) == TRUE

mayUpdateProfile(currentUser, targetUserId) ==
    ~(currentUser.id # targetUserId /\ currentUser.role # "Admin" /\ currentUser.role # "President")

\* targetUser = await User.findByUsername(username): 404, or the permission
\* check: 403, or the three updates are issued.
PutProfile_findByUsername(r) ==
    /\ At(r, "PUT /profile/:username", "findByUsername")
    /\ req' = [req EXCEPT ![r] =
                 IF User_findByUsername(req[r].name) = {} THEN Finish(r, 404, "User not found")
                 ELSE LET targetUser == CHOOSE u \in User_findByUsername(req[r].name) : TRUE IN
                      IF ~mayUpdateProfile(req[r].user, targetUser.id)
                      THEN [Finish(r, 403, "Access denied") EXCEPT !.id = targetUser.id]
                      ELSE [@ EXCEPT !.pc = "update", !.id = targetUser.id]]
    /\ UNCHANGED <<served, socialVars, gateVars, users, pollVars, now, lastVote, results>>

\* Promise.all([UserProfile.update, UserSocials.update, UserAddress.update]):
\* each an UPDATE ... WHERE user_id = $n of the fields that are not undefined
\* (a body field is absent, <<>>, or a new value).
PutProfile_update(r) ==
    /\ At(r, "PUT /profile/:username", "update")
    /\ \E phone_number \in {<<>>, <<"555-0199">>}, county \in {<<>>, <<"Cork">>},
          github_url \in {<<>>, <<"https://github.com/user">>} :
         /\ user_profiles' =
                {IF p.user_id = req[r].id /\ phone_number # <<>>
                 THEN [p EXCEPT !.phone_number = phone_number] ELSE p : p \in user_profiles}
         /\ user_socials' =
                {IF p.user_id = req[r].id /\ github_url # <<>>
                 THEN [p EXCEPT !.github_url = github_url] ELSE p : p \in user_socials}
         /\ user_addresses' =
                {IF p.user_id = req[r].id /\ county # <<>>
                 THEN [p EXCEPT !.county = county] ELSE p : p \in user_addresses}
    /\ req' = [req EXCEPT ![r] = Finish(r, 200, "")]
    /\ UNCHANGED <<served, user_connections, event_attendees, gateVars, users, pollVars,
                   now, lastVote, results>>

\* ----------------------------------------------------------------- signup
\* POST /signup.  The body is <<email, username>>, kept in snap.  The route
\* handler is not among the sources: its order of checks and its answers
\* follow the specification (Conflict is 409); User.emailExists,
\* User.usernameExists and User.create are the model's.
SignupBodies == {"ann@potluck.org", "bob@potluck.org"} \X {"ann", "bob"}

\* User.emailExists, User.usernameExists
User_emailExists(email) == \E u \in users : u.email = email
User_usernameExists(username) == \E u \in users : u.username = username

\* email VARCHAR(255) UNIQUE, username VARCHAR(100) UNIQUE: the INSERT of a
\* row with a stored email or username raises unique_violation.
UsersUniqueViolationNone(email, username) == FALSE

UsersUniqueViolation(email, username) ==
    User_emailExists(email) \/ User_usernameExists(username)

Signup_emailExists(r) ==
    /\ CanStart(r)
    /\ \E body \in SignupBodies :
         req' = [req EXCEPT ![r] =
                    IF User_emailExists(body[1])
                    THEN [Respond("POST /signup", 409, "Email already registered") EXCEPT !.snap = body]
                    ELSE [IdleReq EXCEPT !.kind = "POST /signup", !.pc = "usernameExists",
                                         !.snap = body]]
    /\ UNCHANGED <<served, socialVars, gateVars, users, pollVars, now, lastVote, results>>

Signup_usernameExists(r) ==
    /\ At(r, "POST /signup", "usernameExists")
    /\ req' = [req EXCEPT ![r] =
                 IF User_usernameExists(req[r].snap[2])
                 THEN [Finish(r, 409, "Username already taken") EXCEPT !.snap = req[r].snap]
                 ELSE [@ EXCEPT !.pc = "create"]]
    /\ UNCHANGED <<served, socialVars, gateVars, users, pollVars, now, lastVote, results>>

\* User.create: INSERT INTO users (..., role, is_active) VALUES (..., 'Member',
\* false); a unique_violation is thrown on to the handler.
User_create(r) ==
    /\ At(r, "POST /signup", "create")
    /\ LET email == req[r].snap[1]
           username == req[r].snap[2]
           id == Cardinality(users) + 1
       IN  IF UsersUniqueViolation(email, username)
           THEN /\ users' = users
                /\ req' = [req EXCEPT ![r] =
                             [Finish(r, 409, "unique_violation") EXCEPT !.snap = req[r].snap]]
           ELSE /\ users' = users \cup {[id |-> id, role |-> "Member", is_active |-> FALSE,
                                         email |-> email, username |-> username]}
                /\ req' = [req EXCEPT ![r] =
                             [Finish(r, 201, "") EXCEPT !.id = id, !.snap = req[r].snap]]
    /\ UNCHANGED <<served, socialVars, gateVars, pollVars, now, lastVote, results>>

\* -------------------------------------------------------------- connections
\* Connection.acceptRequest's WHERE: the pending row from targetUserId to userId.
PendingRequestEitherWay(userId, targetUserId) ==
    {c \in Connection_getConnectionStatus(userId, targetUserId) : c.status = "pending"}

PendingRequest(userId, targetUserId) ==
    {c \in user_connections : /\ c.user_id = targetUserId
                              /\ c.connected_user_id = userId
                              /\ c.status = "pending"}

\* POST /profile/connect/:userId and POST /profile/connect/:userId/accept:
\* authenticateToken; connect answers 400 to one's own id, and then
\* User.findById or Connection.acceptRequest is issued.
Connect_authenticate(r) ==
    /\ CanStart(r)
    /\ \E tok \in Tokens, userId \in UserIdInputs,
          kind \in {"POST /profile/connect/:userId", "POST /profile/connect/:userId/accept"} :
         LET a == authenticateToken(tok) IN
         req' = [req EXCEPT ![r] =
                    IF a.status # 0 THEN Refuse(kind, a)
                    ELSE IF kind = "POST /profile/connect/:userId/accept"
                    THEN Accept(kind, "acceptRequest", a, userId)
                    ELSE IF a.user.id = userId
                    THEN [Refuse(kind, [a EXCEPT !.status = 400,
                                                 !.error = "Cannot connect to yourself"])
                            EXCEPT !.id = userId]
                    ELSE Accept(kind, "findById", a, userId)]
    /\ UNCHANGED <<served, socialVars, gateVars, users, pollVars, now, lastVote, results>>

\* const targetUser = await User.findById(userId); if (!targetUser) return 404
Connect_findById(r) ==
    /\ At(r, "POST /profile/connect/:userId", "findById")
    /\ req' = [req EXCEPT ![r] =
                 IF UserRows(req[r].id) = {} THEN Finish(r, 404, "User not found")
                 ELSE [@ EXCEPT !.pc = "getConnectionStatus"]]
    /\ UNCHANGED <<served, socialVars, gateVars, users, pollVars, now, lastVote, results>>

\* existingConnection = await Connection.getConnectionStatus(currentUserId, userId)
Connect_getConnectionStatus(r) ==
    /\ At(r, "POST /profile/connect/:userId", "getConnectionStatus")
    /\ LET rows == Connection_getConnectionStatus(req[r].user.id, req[r].id) IN
       req' = [req EXCEPT ![r] =
                 IF \E c \in rows : c.status = "accepted" THEN Finish(r, 400, "Already connected")
                 ELSE IF \E c \in rows : c.status = "pending"
                 THEN Finish(r, 400, "Connection request already sent")
                 ELSE [@ EXCEPT !.pc = "createRequest"]]
    /\ UNCHANGED <<served, socialVars, gateVars, users, pollVars, now, lastVote, results>>

\* Connection.createRequest, its SELECT: an existing row is returned as it is.
Connection_createRequest_select(r) ==
    /\ At(r, "POST /profile/connect/:userId", "createRequest")
    /\ req' = [req EXCEPT ![r] =
                 IF Connection_getConnectionStatus(req[r].user.id, req[r].id) # {}
                 THEN Finish(r, 200, "")
                 ELSE [@ EXCEPT !.pc = "insert"]]
    /\ UNCHANGED <<served, socialVars, gateVars, users, pollVars, now, lastVote, results>>

\* Connection.createRequest, its INSERT ... 'pending'; UNIQUE(user_id,
\* connected_user_id) raises unique_violation, which the handler answers 500.
Connection_createRequest_insert(r) ==
    /\ At(r, "POST /profile/connect/:userId", "insert")
    /\ IF \E c \in user_connections :
             c.user_id = req[r].user.id /\ c.connected_user_id = req[r].id
       THEN /\ user_connections' = user_connections
            /\ req' = [req EXCEPT ![r] = Finish(r, 500, "Failed to send connection request")]
       ELSE /\ user_connections' = user_connections \cup
                   {[user_id |-> req[r].user.id, connected_user_id |-> req[r].id,
                     status |-> "pending"]}
            /\ req' = [req EXCEPT ![r] = Finish(r, 200, "")]
    /\ UNCHANGED <<served, user_profiles, user_socials, user_addresses, event_attendees,
                   gateVars, users, pollVars, now, lastVote, results>>

\* Connection.acceptRequest(currentUserId, userId): UPDATE ... SET status =
\* 'accepted' ... RETURNING *; no row is 404.
Connection_acceptRequest(r) ==
    /\ At(r, "POST /profile/connect/:userId/accept", "acceptRequest")
    /\ LET rows == PendingRequest(req[r].user.id, req[r].id) IN
       /\ user_connections' =
              {IF c \in rows THEN [c EXCEPT !.status = "accepted"] ELSE c : c \in user_connections}
       /\ req' = [req EXCEPT ![r] =
                    IF rows = {} THEN Finish(r, 404, "Connection request not found")
                    ELSE Finish(r, 200, "")]
    /\ UNCHANGED <<served, user_profiles, user_socials, user_addresses, event_attendees,
                   gateVars, users, pollVars, now, lastVote, results>>

\* ---------------------------------------------------------- event attendees
\* EventAttendee.rsvp, cancel and confirmAttendance, called for an event id
\* (kept in id), an account (user) and, for a check-in, the confirming account
\* (host).  checked_in_at is <<>> for NULL and <<now>> for CURRENT_TIMESTAMP;
\* updated_at is left out.  A call is answered 200
\* when it returns and 500 when its query throws.
AttendeeRows(eventId, userId) ==
    {a \in event_attendees : a.event_id = eventId /\ a.user_id = userId}

\* INSERT ... ON CONFLICT (event_id, user_id) DO UPDATE SET ...: the table
\* after the statement.
UpsertDuplicating(row) == event_attendees \cup {row}

Upsert(row) == (event_attendees \ AttendeeRows(row.event_id, row.user_id)) \cup {row}

\* event_id REFERENCES community_events(id): foreign_key_violation.
EventAttendee_rsvp(r) ==
    /\ CanStart(r)
    /\ \E eventId \in EventIdInputs, u \in users :
         LET call == [IdleReq EXCEPT !.kind = "rsvp", !.pc = "done", !.id = eventId,
                                     !.user = [id |-> u.id, role |-> u.role]]
         IN
         IF ~Event_exists(eventId)
         THEN /\ event_attendees' = event_attendees
              /\ req' = [req EXCEPT ![r] = [call EXCEPT !.status = 500,
                                                        !.error = "foreign_key_violation"]]
         ELSE /\ event_attendees' = Upsert([event_id |-> eventId, user_id |-> u.id,
                                            status |-> "registered", checked_in_at |-> <<>>,
                                            checked_in_by |-> NULL])
              /\ req' = [req EXCEPT ![r] = [call EXCEPT !.status = 200]]
    /\ UNCHANGED <<served, user_profiles, user_socials, user_addresses, user_connections,
                   gateVars, users, pollVars, now, lastVote, results>>

\* SET status = 'cancelled', checked_in_at = NULL, checked_in_by = NULL
CancelledKeepingCheckIn(a) == [a EXCEPT !.status = "cancelled"]

Cancelled(a) ==
    [a EXCEPT !.status = "cancelled", !.checked_in_at = <<>>, !.checked_in_by = NULL]

\* EventAttendee.cancel: UPDATE event_attendees SET ... WHERE event_id = $1 AND user_id = $2
EventAttendee_cancel(r) ==
    /\ CanStart(r)
    /\ \E eventId \in EventIdInputs, u \in users :
         /\ event_attendees' =
                {IF a \in AttendeeRows(eventId, u.id)
                 THEN Cancelled(a) ELSE a
                 : a \in event_attendees}
         /\ req' = [req EXCEPT ![r] =
                      [IdleReq EXCEPT !.kind = "cancel", !.pc = "done", !.id = eventId,
                                      !.user = [id |-> u.id, role |-> u.role], !.status = 200]]
    /\ UNCHANGED <<served, user_profiles, user_socials, user_addresses, user_connections,
                   gateVars, users, pollVars, now, lastVote, results>>

\* confirmAttendance, its UPDATE ... SET status = 'checked_in', checked_in_by = $3;
\* with no row updated the INSERT is issued next.
EventAttendee_confirmAttendance_update(r) ==
    /\ CanStart(r)
    /\ \E eventId \in EventIdInputs, u \in users, confirmedBy \in UserIds :
         LET call == [IdleReq EXCEPT !.kind = "confirmAttendance", !.id = eventId,
                                     !.user = [id |-> u.id, role |-> u.role],
                                     !.host = confirmedBy]
         IN
         /\ event_attendees' =
                {IF a \in AttendeeRows(eventId, u.id)
                 THEN [a EXCEPT !.status = "checked_in", !.checked_in_at = <<now>>,
                                 !.checked_in_by = confirmedBy] ELSE a
                 : a \in event_attendees}
         /\ req' = [req EXCEPT ![r] =
                      IF AttendeeRows(eventId, u.id) = {} THEN [call EXCEPT !.pc = "insert"]
                      ELSE [call EXCEPT !.pc = "done", !.status = 200]]
    /\ UNCHANGED <<served, user_profiles, user_socials, user_addresses, user_connections,
                   gateVars, users, pollVars, now, lastVote, results>>

\* confirmAttendance, its INSERT ... 'checked_in' ... ON CONFLICT DO UPDATE.
EventAttendee_confirmAttendance_insert(r) ==
    /\ At(r, "confirmAttendance", "insert")
    /\ LET call == [req[r] EXCEPT !.pc = "done"] IN
       IF ~Event_exists(req[r].id)
       THEN /\ event_attendees' = event_attendees
            /\ req' = [req EXCEPT ![r] = [call EXCEPT !.status = 500,
                                                      !.error = "foreign_key_violation"]]
       ELSE /\ event_attendees' = Upsert([event_id |-> req[r].id, user_id |-> req[r].user.id,
                                          status |-> "checked_in", checked_in_at |-> <<now>>,
                                          checked_in_by |-> req[r].host])
            /\ req' = [req EXCEPT ![r] = [call EXCEPT !.status = 200]]
    /\ UNCHANGED <<served, user_profiles, user_socials, user_addresses, user_connections,
                   gateVars, users, pollVars, now, lastVote, results>>

\* ------------------------------------------------------------ model updates
\* Event.update, Blog.update, Timeline.update, UserProfile.update,
\* UserSocials.update and UserAddress.update are one text: the SET clause lists
\* the fields of the payload whose value is not undefined (<<>> here, <<v>> a
\* value), with no field there is no query and the result is null, and the
\* BEFORE UPDATE trigger update_updated_at_column sets updated_at of every row
\* the statement updates.
UpdatedRowKeepingTime(row, fields) ==
    [k \in DOMAIN row |->
        IF k \in DOMAIN fields /\ fields[k] # <<>> THEN fields[k][1] ELSE row[k]]

UpdatedRow(row, fields) ==
    [k \in DOMAIN row |->
        IF k \in DOMAIN fields /\ fields[k] # <<>> THEN fields[k][1]
        ELSE IF k = "updated_at" THEN now
        ELSE row[k]]

\* A call Model.update(id, fields) on one of the six tables (name), its payload
\* kept in body; found tells a returned row from null or undefined.
Model_update(r) ==
    /\ CanStart(r)
    /\ Serve
    /\ \E t \in {"community_events", "blog_posts", "timeline_posts",
                 "user_profiles", "user_socials", "user_addresses"},
          id \in 1..(MaxUsers + 1) :
         LET rows == CASE t = "community_events" -> community_events
                       [] t = "blog_posts" -> blog_posts
                       [] t = "timeline_posts" -> timeline_posts
                       [] t = "user_profiles" -> user_profiles
                       [] t = "user_socials" -> user_socials
                       [] t = "user_addresses" -> user_addresses
             columns == CASE t = "community_events" -> {"event_name", "event_description"}
                          [] t = "blog_posts" -> {"title", "blog_content"}
                          [] t = "timeline_posts" -> {"content", "image_url"}
                          [] t = "user_profiles" -> {"about", "phone_number"}
                          [] t = "user_socials" -> {"github_url", "twitter_url"}
                          [] t = "user_addresses" -> {"county", "post_code"}
             key == IF t \in {"community_events", "blog_posts", "timeline_posts"}
                    THEN "id" ELSE "user_id"
         IN
         \E fields \in [columns -> {<<>>, <<"new">>}] :
           LET write == \E k \in columns : fields[k] # <<>>
               after == IF write
                        THEN {IF row[key] = id THEN UpdatedRow(row, fields) ELSE row : row \in rows}
                        ELSE rows
               Table(name, old) == IF t = name THEN after ELSE old
           IN
           /\ community_events' = Table("community_events", community_events)
           /\ blog_posts' = Table("blog_posts", blog_posts)
           /\ timeline_posts' = Table("timeline_posts", timeline_posts)
           /\ user_profiles' = Table("user_profiles", user_profiles)
           /\ user_socials' = Table("user_socials", user_socials)
           /\ user_addresses' = Table("user_addresses", user_addresses)
           /\ req' = [req EXCEPT ![r] =
                        [IdleReq EXCEPT !.kind = "update", !.pc = "done", !.name = t, !.id = id,
                                        !.body = fields, !.status = 200,
                                        !.found = write /\ \E row \in rows : row[key] = id]]
    /\ UNCHANGED <<event_id_seq, blog_id_seq, timeline_id_seq, role_permissions,
                   user_connections, event_attendees, users, pollVars, now, lastVote, results>>

\* --------------------------------------------------------------- pagination
\* A query parameter is the text parseInt converts: a sequence of characters,
\* an absent parameter being the text of undefined, which is no numeral.
Digits == {"0", "1", "9"}
DigitValue(c) == CASE c = "0" -> 0 [] c = "1" -> 1 [] c = "9" -> 9

\* The value of the longest prefix of digits of s after the value acc, and
\* whether a digit was read.
RECURSIVE ReadDigits(_, _, _)
ReadDigits(s, acc, any) ==
    IF s # <<>> /\ Head(s) \in Digits
    THEN ReadDigits(Tail(s), 10 * acc + DigitValue(Head(s)), TRUE)
    ELSE [value |-> acc, any |-> any]

\* parseInt(text, 10): an optional sign, then digits up to the first other
\* character; <<>> is NaN, <<n>> the integer n.
parseInt(s) ==
    LET signed == s # <<>> /\ Head(s) \in {"-", "+"}
        read == ReadDigits(IF signed THEN Tail(s) ELSE s, 0, FALSE)
    IN  IF ~read.any THEN <<>>
        ELSE IF signed /\ Head(s) = "-" THEN <<0 - read.value>>
        ELSE <<read.value>>

\* n || fallback: NaN and 0 are falsy.
OrDefault(n, fallback) == IF n = <<>> \/ n = <<0>> THEN fallback ELSE n[1]

Math_max(a, b) == IF a >= b THEN a ELSE b
Math_min(a, b) == IF a <= b THEN a ELSE b
\* Math.ceil(a / b) for a >= 0, b >= 1
Math_ceil(a, b) == (a + b - 1) \div b

\* const page = Math.max(1, parseInt(req.query.page, 10) || 1)
EffectivePage(page) == Math_max(1, OrDefault(parseInt(page), 1))

\* const limit = Math.max(1, Math.min(100, parseInt(req.query.limit, 10) || 10))
EffectiveLimitNoFloor(limit) == Math_min(100, OrDefault(parseInt(limit), 10))

EffectiveLimit(limit) == Math_max(1, Math_min(100, OrDefault(parseInt(limit), 10)))

\* The pagination object of GET /events and of GET /timeline, the table
\* counting total rows.
Pagination(page, limit, total) ==
    LET p == EffectivePage(page)
        l == EffectiveLimit(limit)
        totalPages == Math_ceil(total, l)
    IN  [status |-> 200, currentPage |-> p, limit |-> l, total |-> total,
         totalPages |-> totalPages, hasNextPage |-> p < totalPages,
         hasPreviousPage |-> p > 1]

NoPagination ==
    [status |-> 0, currentPage |-> 0, limit |-> 0, total |-> 0, totalPages |-> 0,
     hasNextPage |-> FALSE, hasPreviousPage |-> FALSE]

\* GET /events: no middleware.
GetEvents_paginate ==
    /\ results.route = "GET /events"
    /\ results.out = NoPagination
    /\ results' = [results EXCEPT !.out = Pagination(results.page, results.limit, results.total)]
    /\ UNCHANGED <<socialVars, served, gateVars, users, pollVars, now, req, lastVote>>

\* GET /timeline: authenticateToken, then the same lines.
GetTimeline_paginate ==
    /\ results.route = "GET /timeline"
    /\ results.out = NoPagination
    /\ \E tok \in Tokens :
         LET a == authenticateToken(tok) IN
         results' = [results EXCEPT !.out =
                        IF a.status # 0 THEN [NoPagination EXCEPT !.status = a.status]
                        ELSE Pagination(results.page, results.limit, results.total)]
    /\ UNCHANGED <<socialVars, served, gateVars, users, pollVars, now, req, lastVote>>

\* The content tables before any request.
NoPosts ==
    /\ community_events = {}
    /\ event_id_seq = 0
    /\ blog_posts = {}
    /\ blog_id_seq = 0
    /\ timeline_posts = {}
    /\ timeline_id_seq = 0
    /\ role_permissions = {}
    /\ served = 0

NoContent ==
    /\ NoPosts
    /\ user_profiles = {}
    /\ user_socials = {}
    /\ user_addresses = {}
    /\ user_connections = {}
    /\ event_attendees = {}

\* --------------------------------------------------------------- SpecPoll
\* The poll engine from an empty store, its requests served one after another
\* on one connection.
ActiveMembers == {[id |-> u, role |-> "Member", is_active |-> TRUE] : u \in UserIds}

NoVotes == [k \in PollIds \X UserIds |-> GhostOption]

SerialReq == {1}

InitPoll ==
    /\ users = ActiveMembers
    /\ NoContent
    /\ polls = {}
    /\ poll_id_seq = 0
    /\ poll_options = {}
    /\ poll_votes = {}
    /\ now = 0
    /\ req = [r \in Req |-> IdleReq]
    /\ lastVote = NoVotes
    /\ results = NoBody

NextPoll ==
    \/ Tick
    \/ \E r \in SerialReq : PostPolls(r) \/ PostVote(r)

SpecPoll == InitPoll /\ [][NextPoll]_vars

\* --------------------------------------------------------------- SpecRace
\* Concurrent vote and result requests once RacePolls polls of MaxOptions options each
\* exist, created by account 1, every account an activated Member.

InitRace ==
    /\ users = ActiveMembers
    /\ NoContent
    /\ polls = {[id |-> p, created_by |-> 1, expires_at |-> NoExpiry, is_active |-> TRUE] :
                    p \in 1..RacePolls}
    /\ poll_id_seq = RacePolls
    /\ poll_options = {[id |-> o, poll_id |-> o[1], created_at |-> o[2]] :
                          o \in (1..RacePolls) \X (1..MaxOptions)}
    /\ poll_votes = {}
    /\ now = 0
    /\ req = [r \in Req |-> IdleReq]
    /\ lastVote = NoVotes
    /\ results = NoBody

NextRace == \E r \in Req : PostVote(r) \/ GetPoll(r)

SpecRace == InitRace /\ [][NextRace]_vars

\* ------------------------------------------------------------ SpecResults
\* The percentage map of Poll.getResults as a function of the poll object
\* Poll.findById hands it: MinOptions..MaxOptions options, every vote_count
\* and the total_votes in 0..MaxCount.
CountInputs == 0..MaxCount

PollObjects ==
    UNION {[options : [1..n -> [id : {GhostOption}, vote_count : CountInputs]],
            total_votes : CountInputs] : n \in MinOptions..MaxOptions}

InitResults ==
    /\ users = {}
    /\ NoContent
    /\ polls = {}
    /\ poll_id_seq = 0
    /\ poll_options = {}
    /\ poll_votes = {}
    /\ now = 0
    /\ req = [r \in Req |-> IdleReq]
    /\ lastVote = NoVotes
    /\ results \in [poll : PollObjects, out : {NoBody}]

Poll_getResults_map ==
    /\ results.out = NoBody
    /\ results' = [results EXCEPT !.out = WithPercentages(results.poll)]
    /\ UNCHANGED <<socialVars, served, gateVars, users, pollVars, now, req, lastVote>>

NextResults == Poll_getResults_map

SpecResults == InitResults /\ [][NextResults]_vars

\* --------------------------------------------------------------- SpecGate
\* The role-gated routes served one after another: account 1 is the seeded
\* Admin, the other accounts hold any role, every account is activated or
\* not; the content tables are empty and role_permissions holds the rows the
\* schema inserts.
DefaultRolePermissions ==
    {[role |-> "Admin", permissions |-> {"*"}],
     [role |-> "President", permissions |-> {"view_private_profiles", "view_events", "view_blogs"}],
     [role |-> "Secretary", permissions |->
         {"create_events", "update_events", "delete_events", "create_blogs",
          "update_blogs", "delete_blogs", "view_events", "view_blogs"}],
     [role |-> "Member", permissions |->
         {"view_public_profiles", "view_events", "view_blogs", "create_own_blog"}]}

UserTables ==
    {{[id |-> u, role |-> role[u], is_active |-> active[u]] : u \in UserIds} :
        role \in {f \in [UserIds -> Roles] : f[1] = "Admin"}, active \in [UserIds -> BOOLEAN]}

InitGate ==
    /\ users \in UserTables
    /\ polls = {}
    /\ poll_id_seq = 0
    /\ poll_options = {}
    /\ poll_votes = {}
    /\ now = 0
    /\ req = [r \in Req |-> IdleReq]
    /\ lastVote = NoVotes
    /\ results = NoBody
    /\ community_events = {}
    /\ event_id_seq = 0
    /\ blog_posts = {}
    /\ blog_id_seq = 0
    /\ timeline_posts = {}
    /\ timeline_id_seq = 0
    /\ role_permissions = DefaultRolePermissions
    /\ served = 0
    /\ user_profiles = {}
    /\ user_socials = {}
    /\ user_addresses = {}
    /\ user_connections = {}
    /\ event_attendees = {}

NextGate ==
    \E r \in SerialReq : EventRoutes(r) \/ BlogRoutes(r) \/ TimelineRoutes(r) \/ AdminRoutes(r)

SpecGate == InitGate /\ [][NextGate]_vars

\* ------------------------------------------------------------ SpecProfile
\* Profile reads and updates served one after another.  Account 1 is an
\* activated Member, the other accounts hold any role, activated or not; each
\* account has a profile, socials and address row or none.
ProfileUsers ==
    {{[id |-> u, role |-> role[u], is_active |-> active[u],
       email |-> EmailOf(u), username |-> UsernameOf(u)] : u \in UserIds} :
        role \in {f \in [UserIds -> Roles] : f[1] = "Member"},
        active \in {f \in [UserIds -> BOOLEAN] : f[1]}}

InitProfile ==
    /\ users \in ProfileUsers
    /\ NoPosts
    /\ user_connections = {}
    /\ event_attendees = {}
    /\ polls = {}
    /\ poll_id_seq = 0
    /\ poll_options = {}
    /\ poll_votes = {}
    /\ now = 0
    /\ req = [r \in Req |-> IdleReq]
    /\ lastVote = NoVotes
    /\ results = NoBody
    /\ \E owners \in SUBSET UserIds :
         /\ user_profiles = {[user_id |-> u, about |-> <<"hello">>,
                              phone_number |-> <<"555-010" \o ToString(u)>>] : u \in owners}
         /\ user_socials = {[user_id |-> u, github_url |-> <<>>] : u \in owners}
    /\ user_addresses \in
         {{[user_id |-> u, county |-> <<"Kent">>, post_code |-> <<", CT" \o ToString(u)>>] : u \in housed} :
             housed \in SUBSET UserIds}

NextProfile ==
    \E r \in SerialReq :
        \/ GetProfile_resolve(r)
        \/ GetProfile_findById(r)
        \/ GetProfile_findByUsername(r)
        \/ GetProfile_connections(r)
        \/ GetProfile_read(r)
        \/ PutProfile_authenticate(r)
        \/ PutProfile_findByUsername(r)
        \/ PutProfile_update(r)

SpecProfile == InitProfile /\ [][NextProfile]_vars

\* ------------------------------------------------------------- SpecSignup
\* Signups on MaxReq connections at once, from an empty users table.
InitSignup ==
    /\ users = {}
    /\ NoContent
    /\ polls = {}
    /\ poll_id_seq = 0
    /\ poll_options = {}
    /\ poll_votes = {}
    /\ now = 0
    /\ req = [r \in Req |-> IdleReq]
    /\ lastVote = NoVotes
    /\ results = NoBody

NextSignup ==
    \E r \in Req : Signup_emailExists(r) \/ Signup_usernameExists(r) \/ User_create(r)

SpecSignup == InitSignup /\ [][NextSignup]_vars

\* --------------------------------------------------------------- SpecBlog
\* The blog routes, the approval and the public list, served one after
\* another; the writes stop at MaxServed, the list can be read at any time.
NextBlog ==
    \E r \in SerialReq :
        \/ BlogRoutes(r)
        \/ PutApprove_authenticate(r)
        \/ PutApprove_exists(r)
        \/ Blog_approve(r)
        \/ GetBlogs_resolve(r)
        \/ GetBlogs_findAll(r)

SpecBlog == InitGate /\ [][NextBlog]_vars

\* ------------------------------------------------------------ SpecConnect
\* Connection requests and acceptances of activated Members on MaxReq
\* connections at once, from an empty user_connections table.
InitConnect ==
    /\ users = ActiveMembers
    /\ NoContent
    /\ polls = {}
    /\ poll_id_seq = 0
    /\ poll_options = {}
    /\ poll_votes = {}
    /\ now = 0
    /\ req = [r \in Req |-> IdleReq]
    /\ lastVote = NoVotes
    /\ results = NoBody

NextConnect ==
    \E r \in Req :
        \/ Connect_authenticate(r)
        \/ Connect_findById(r)
        \/ Connect_getConnectionStatus(r)
        \/ Connection_createRequest_select(r)
        \/ Connection_createRequest_insert(r)
        \/ Connection_acceptRequest(r)

SpecConnect == InitConnect /\ [][NextConnect]_vars

\* ----------------------------------------------------------- SpecAttendee
\* The three attendee calls on MaxReq connections at once, for activated
\* Members and one stored event (EventIdInputs also names an event without a
\* row), from an empty event_attendees table.
InitAttendee ==
    /\ users = ActiveMembers
    /\ community_events = {[id |-> 1, event_host |-> NULL, event_host_name |-> "Ann"]}
    /\ event_id_seq = 1
    /\ blog_posts = {}
    /\ blog_id_seq = 0
    /\ timeline_posts = {}
    /\ timeline_id_seq = 0
    /\ role_permissions = {}
    /\ served = 0
    /\ user_profiles = {}
    /\ user_socials = {}
    /\ user_addresses = {}
    /\ user_connections = {}
    /\ event_attendees = {}
    /\ polls = {}
    /\ poll_id_seq = 0
    /\ poll_options = {}
    /\ poll_votes = {}
    /\ now = 0
    /\ req = [r \in Req |-> IdleReq]
    /\ lastVote = NoVotes
    /\ results = NoBody

NextAttendee ==
    \E r \in Req :
        \/ EventAttendee_rsvp(r)
        \/ EventAttendee_cancel(r)
        \/ EventAttendee_confirmAttendance_update(r)
        \/ EventAttendee_confirmAttendance_insert(r)

SpecAttendee == InitAttendee /\ [][NextAttendee]_vars

\* ------------------------------------------------------------- SpecUpdate
\* The six update operations called one after another, on tables of MaxUsers
\* rows each that were written when the clock read 0.
InitUpdate ==
    /\ community_events = {[id |-> i, event_name |-> "old", event_description |-> "old",
                            updated_at |-> 0] : i \in UserIds}
    /\ blog_posts = {[id |-> i, title |-> "old", blog_content |-> "old",
                      updated_at |-> 0] : i \in UserIds}
    /\ timeline_posts = {[id |-> i, content |-> "old", image_url |-> "old",
                          updated_at |-> 0] : i \in UserIds}
    /\ user_profiles = {[user_id |-> i, about |-> "old", phone_number |-> "old",
                         updated_at |-> 0] : i \in UserIds}
    /\ user_socials = {[user_id |-> i, github_url |-> "old", twitter_url |-> "old",
                        updated_at |-> 0] : i \in UserIds}
    /\ user_addresses = {[user_id |-> i, county |-> "old", post_code |-> "old",
                          updated_at |-> 0] : i \in UserIds}
    /\ event_id_seq = MaxUsers
    /\ blog_id_seq = MaxUsers
    /\ timeline_id_seq = MaxUsers
    /\ role_permissions = {}
    /\ served = 0
    /\ user_connections = {}
    /\ event_attendees = {}
    /\ users = ActiveMembers
    /\ polls = {}
    /\ poll_id_seq = 0
    /\ poll_options = {}
    /\ poll_votes = {}
    /\ now = 0
    /\ req = [r \in Req |-> IdleReq]
    /\ lastVote = NoVotes
    /\ results = NoBody

NextUpdate == Tick \/ \E r \in SerialReq : Model_update(r)

SpecUpdate == InitUpdate /\ [][NextUpdate]_vars

\* --------------------------------------------------------------- SpecPage
\* The pagination of the two list routes as a function of the page and limit
\* parameters (texts of at most MaxQueryLen characters, or absent) and of the
\* number of rows the table holds.
QueryChars == Digits \cup {"-", "a"}

QueryValues ==
    {<<"undefined">>} \cup UNION {[1..n -> QueryChars] : n \in 0..MaxQueryLen}

Totals == {0, 1, 10, 11, MaxTotal - 1, MaxTotal}

InitPage ==
    /\ users = ActiveMembers
    /\ NoContent
    /\ polls = {}
    /\ poll_id_seq = 0
    /\ poll_options = {}
    /\ poll_votes = {}
    /\ now = 0
    /\ req = [r \in Req |-> IdleReq]
    /\ lastVote = NoVotes
    /\ results \in [route : {"GET /events", "GET /timeline"}, page : QueryValues,
                    limit : QueryValues, total : Totals, out : {NoPagination}]

NextPage == GetEvents_paginate \/ GetTimeline_paginate

SpecPage == InitPage /\ [][NextPage]_vars

\* ----------------------------------------------------------- SpecRoleRace
\* Role-update requests on MaxReq connections at once, from the user tables
\* of SpecGate (account 1 an Admin, the others of any role).
NextRoleRace ==
    \E r \in Req : PutRole_authenticate(r) \/ Admin_findById(r) \/ User_updateRole(r)

SpecRoleRace == InitGate /\ [][NextRoleRace]_vars

\* ================================================================ claims
Abs(x) == IF x < 0 THEN -x ELSE x

RECURSIVE SumCounts(_)
SumCounts(options) ==
    IF options = <<>> THEN 0
    ELSE Head(options).vote_count + SumCounts(Tail(options))

RECURSIVE SumHundredths(_)
SumHundredths(options) ==
    IF options = <<>> THEN 0
    ELSE Head(options).vote_percentage.hundredths + SumHundredths(Tail(options))

\* C1: poll_votes holds at most one row per (poll, account); the row is the one
\* the first vote inserted and its option is the one of the latest recorded
\* vote, so a repeat vote overwrites the row's option and adds no row.
C1_OneVoteRowPerPollAndAccount ==
    \A pollId \in PollIds, userId \in UserIds :
        IF lastVote[<<pollId, userId>>] = GhostOption
        THEN VotesOf(pollId, userId) = {}
        ELSE VotesOf(pollId, userId) =
                {[id |-> <<pollId, userId, 0>>, poll_id |-> pollId,
                  option_id |-> lastVote[<<pollId, userId>>], user_id |-> userId]}

\* A repeat vote has just run its UPDATE and the pair still has one row.
C1_Witness ==
    \E r \in Req :
        /\ req[r].kind = "vote" /\ req[r].pc = "options" /\ req[r].found
        /\ Cardinality(VotesOf(req[r].id, req[r].user.id)) = 1

\* C2: concurrent first votes of one account on one poll both succeed: no vote
\* request ends in a duplicate-key failure and no pair has two rows.
C2_ConcurrentFirstVotesBothSucceed ==
    /\ \A r \in Req : req[r].kind = "vote" => req[r].error # "unique_violation"
    /\ \A pollId \in PollIds, userId \in UserIds :
           Cardinality(VotesOf(pollId, userId)) <= 1

\* C3: for every poll, the option vote counts Poll.findById reports sum to the
\* total_votes it reports.
C3_OptionCountsSumToTotal ==
    \A p \in polls :
        SumCounts(Poll_findById(p.id).options) = Poll_findById(p.id).total_votes

\* C4: each option's reported count is the number of accounts whose latest
\* vote on the poll chose it, and total_votes is the number of accounts that
\* voted on the poll.
C4_TallyIsLatestVotes ==
    \A p \in polls :
        LET poll == Poll_findById(p.id) IN
        /\ \A i \in 1..Len(poll.options) :
              poll.options[i].vote_count =
                  Cardinality({u \in UserIds : lastVote[<<p.id, u>>] = poll.options[i].id})
        /\ poll.total_votes =
              Cardinality({u \in UserIds : lastVote[<<p.id, u>>] # GhostOption})

\* C5: with total_votes > 0 every option's percentage is the two-decimal value
\* within half a hundredth of 100 * vote_count / total_votes; with total_votes
\* = 0 it is the number 0.
C5_PercentageIsRoundedRatio ==
    results.out # NoBody =>
        \A i \in 1..Len(results.out.options) :
            LET o == results.out.options[i]
                total == results.out.total_votes
            IN  IF total > 0
                THEN /\ o.vote_percentage.type = "string"
                     /\ 2 * Abs(o.vote_percentage.hundredths * total - 10000 * o.vote_count)
                            <= total
                ELSE o.vote_percentage = ZeroNumber

\* getResults has mapped 2 of 3 votes to 66.67 and, in another poll object, an
\* option of a poll without votes to 0.
C5_Witness ==
    /\ results.out # NoBody
    /\ \/ /\ results.out.total_votes = 3
          /\ results.out.options[1].vote_count = 2
          /\ results.out.options[1].vote_percentage.hundredths = 6667
       \/ /\ results.out.total_votes = 0
          /\ results.out.options[1].vote_count = 1
          /\ results.out.options[1].vote_percentage = ZeroNumber

\* C6: for every poll with total_votes > 0 the option percentages getResults
\* reports sum to 100 within 0.005 per option.
C6_PercentagesSumTo100 ==
    \A p \in polls :
        LET poll == Poll_getResults(p.id) IN
        poll.total_votes > 0 =>
            2 * Abs(SumHundredths(poll.options) - 10000) <= Len(poll.options)

\* C7: a poll that is Expired/Closed (active flag false, or now >= expiry)
\* accepts no vote: no step changes the vote rows of such a poll.
PollClosed(p) == ~p.is_active \/ (p.expires_at # NoExpiry /\ now >= p.expires_at)

C7_ClosedPollRefusesVotes ==
    [][\A p \in polls :
          PollClosed(p) =>
              {v \in poll_votes' : v.poll_id = p.id} = {v \in poll_votes : v.poll_id = p.id}]_vars

\* C8: every vote row references an option of the poll the vote is on.
C8_VoteOptionBelongsToPoll ==
    \A v \in poll_votes :
        \E o \in poll_options : o.id = v.option_id /\ o.poll_id = v.poll_id

\* C9: a role-update request whose acting identity is an Admin, whose target
\* id is the acting id and whose requested role is anything but Admin is
\* answered 400 in the step that takes it up; that step changes no table and
\* the acting account's role is still Admin.
C9_SelfDemotionRejected ==
    [][\A r \in Req :
          (/\ req'[r] # req[r]
           /\ req'[r].kind = "PUT /admin/users/:userId/role"
           /\ req'[r].user.role = "Admin"
           /\ req'[r].id = req'[r].user.id
           /\ req'[r].role # "Admin")
          => /\ req'[r].pc = "done"
             /\ req'[r].status = 400
             /\ users' = users
             /\ \E u \in users' : u.id = req'[r].user.id /\ u.role = "Admin"
             /\ UNCHANGED <<gateVars, pollVars>>]_vars

\* An Admin's request to give their own account a role of the enum other than
\* Admin has been refused by the guard.
C9_Witness ==
    \E r \in Req :
        /\ req[r].kind = "PUT /admin/users/:userId/role"
        /\ req[r].pc = "done"
        /\ req[r].status = 400
        /\ req[r].error = "You cannot change your own role from Admin"
        /\ req[r].user.role = "Admin"
        /\ req[r].id = req[r].user.id
        /\ req[r].role \in Roles \ {"Admin"}
        /\ \E u \in users : u.id = req[r].id /\ u.role = "Admin"

\* C10: a request is past the gate of a role-gated route only with a resolved
\* role in the route's allow-set, and a step changes a gated table only as
\* part of a request whose resolved role is in the allow-set: events and blogs
\* {Admin, Secretary}; timeline {Admin, President}; role change, activation
\* change, blog approval and role-permission update {Admin}.
C10_RoleGateIsSetMembership ==
    [][LET EventWrites == {"POST /events", "PUT /events/:id", "DELETE /events/:id"}
           BlogWrites == {"POST /blogs", "PUT /blogs/:id", "DELETE /blogs/:id"}
           TimelineWrites == {"POST /timeline", "PUT /timeline/:id", "DELETE /timeline/:id"}
           AdminWrites == {"PUT /admin/users/:userId/role", "PUT /admin/users/:userId/activate",
                           "PUT /admin/blogs/:id/approve", "PUT /admin/roles/:role"}
           AllowSet(kind) ==
               IF kind \in EventWrites \cup BlogWrites THEN {"Admin", "Secretary"}
               ELSE IF kind \in TimelineWrites THEN {"Admin", "President"}
               ELSE {"Admin"}
           By(kinds) ==
               \E r \in Req : /\ req'[r] # req[r]
                              /\ req[r].kind \in kinds
                              /\ req[r].user.role \in AllowSet(req[r].kind)
       IN
       /\ \A r \in Req :
             (/\ req'[r].kind \in EventWrites \cup BlogWrites \cup TimelineWrites \cup AdminWrites
              /\ req'[r].pc \notin {"idle", "done"})
             => req'[r].user.role \in AllowSet(req'[r].kind)
       /\ community_events' # community_events => By(EventWrites)
       /\ blog_posts' # blog_posts => By(BlogWrites \cup {"PUT /admin/blogs/:id/approve"})
       /\ timeline_posts' # timeline_posts => By(TimelineWrites)
       /\ users' # users =>
             By({"PUT /admin/users/:userId/role", "PUT /admin/users/:userId/activate"})
       /\ role_permissions' # role_permissions => By({"PUT /admin/roles/:role"})]_vars

\* The first request served is a Secretary's POST /events and it has stored
\* its event.
C10_Witness ==
    /\ \E r \in Req :
          /\ req[r].kind = "POST /events"
          /\ req[r].pc = "done"
          /\ req[r].status = 201
          /\ req[r].user.role = "Secretary"
          /\ Event_exists(req[r].id)
    /\ served = 1

\* ------------------------------------------------------------------ C11
\* The values an owner's private fields could hold instead.
OtherEmails == {"other@potluck.org"}
OtherPhones == {<<>>, <<"555-0000">>}
OtherCounties == {<<"Cork">>, <<"Kent">>}
OtherPostCodes == {<<>>, <<", XX0">>}

\* C11: the answer of GET /profile/:identifier to a caller who is neither the
\* owner nor Admin nor President is the same for any two owners that differ
\* only in email, phone number and address, and so carries none of them in
\* any field; the answer to the owner, an Admin or a President carries the
\* email, the phone number and the address.
C11_ProfileHidesPrivateFields ==
    \A r \in Req :
        (At(r, "GET /profile/:identifier", "done") /\ req[r].status = 200) =>
            LET viewer == req[r].user
                user == CHOOSE u \in UserRows(req[r].id) : TRUE
                profileData == RowOr(UserProfile_findByUserId(user.id), EmptyProfile)
                socialsData == RowOr(UserSocials_findByUserId(user.id), EmptySocials)
                addressData == RowOr(UserAddress_findByUserId(user.id), EmptyAddress)
                response == req[r].body
                counts == [attended |-> response.eventsAttended, hosted |-> response.eventsHosted,
                           connections |-> response.connections, status |-> response.connectionStatus]
            IN  IF viewer.role \in {"Admin", "President"} \/ viewer.id = user.id
                THEN /\ response.email = <<user.email>>
                     /\ response.phone = profileData.phone_number
                     /\ response.address = <<addressData>>
                ELSE \A email \in OtherEmails, phone \in OtherPhones,
                        county \in OtherCounties, post_code \in OtherPostCodes :
                        response = ProfileResponse(viewer,
                                       [user EXCEPT !.email = email],
                                       IF profileData = EmptyProfile THEN profileData
                                       ELSE [profileData EXCEPT !.phone_number = phone],
                                       socialsData,
                                       IF addressData = EmptyAddress THEN addressData
                                       ELSE [addressData EXCEPT !.county = county,
                                                                !.post_code = post_code],
                                       counts)

\* ------------------------------------------------------------------ C12
\* The profile, socials and address rows of an account.
RowsOf(userId) ==
    <<UserProfile_findByUserId(userId), UserSocials_findByUserId(userId),
      UserAddress_findByUserId(userId)>>

C14_ResolverOutcomes ==
    [][\A r \in Req :
          (CanStart(r) /\ req'[r] # req[r]) =>
             LET tok == req'[r].token
                 Unauthorized(error) ==
                     req'[r].pc = "done" /\ req'[r].status = 401 /\ req'[r].error = error
             IN
             /\ UNCHANGED <<users, gateVars, socialVars, pollVars>>
             /\ tok.kind = "none" =>
                    /\ req'[r].user.id = 0
                    /\ req'[r].pc = "done" => Unauthorized("Access token required")
             /\ tok.kind = "malformed" => Unauthorized("Invalid token")
             /\ tok.kind = "expired" => Unauthorized("Token expired")
             /\ (tok.kind = "valid" /\ UserRows(tok.userId) = {}) => Unauthorized("Invalid token")]_vars

\* ------------------------------------------------------------------ C15
\* The roles a route's static gate asks for; a route without one asks for none.
RequiredOf(kind) ==
    IF kind \in {"POST /events", "PUT /events/:id", "DELETE /events/:id"} THEN EventRoles
    ELSE IF kind \in {"POST /blogs", "PUT /blogs/:id", "DELETE /blogs/:id"} THEN BlogRoles
    ELSE IF kind \in {"POST /timeline", "PUT /timeline/:id", "DELETE /timeline/:id"} THEN TimelineRoles
    ELSE IF kind \in {"PUT /admin/users/:userId/role", "PUT /admin/users/:userId/activate",
                      "PUT /admin/blogs/:id/approve", "PUT /admin/roles/:role"} THEN AdminRoles
    ELSE {}

\* C15: a resolved caller whose role is outside a route's required roles, and
\* a caller of PUT /profile/:username who is neither the stored target nor
\* Admin nor President, is answered 403 with the required roles and the
\* caller's own role in the answer, and no table changes.
C15_GateFailureCarriesRoles ==
    [][\A r \in Req :
          LET Forbidden(required) ==
                  /\ req'[r].pc = "done"
                  /\ req'[r].status = 403
                  /\ req'[r].message = required
                  /\ req'[r].your_role = req'[r].user.role
                  /\ UNCHANGED <<users, gateVars, socialVars, pollVars>>
          IN
          /\ (/\ CanStart(r) /\ req'[r] # req[r]
              /\ req'[r].user.id # 0
              /\ RequiredOf(req'[r].kind) # {}
              /\ req'[r].user.role \notin RequiredOf(req'[r].kind))
             => Forbidden(RequiredOf(req'[r].kind))
          /\ (/\ At(r, "PUT /profile/:username", "findByUsername") /\ req'[r] # req[r]
              /\ User_findByUsername(req[r].name) # {}
              /\ req'[r].user.id # req'[r].id
              /\ req'[r].user.role \notin {"Admin", "President"})
             => Forbidden({"Admin", "President"})]_vars

C17_PublicListIsAvailableBlogs ==
    /\ [](\A r \in Req :
            (At(r, "GET /blogs", "done") /\ req[r].status = 200) =>
               LET tok == req[r].token
                   admin == tok.kind = "valid" /\ \E u \in users : u.id = tok.userId /\ u.role = "Admin"
               IN  \A b \in blog_posts :
                      /\ b \in req[r].body <=> (admin \/ b.is_available)
                      /\ \A c \in req[r].body : c \in blog_posts)
    /\ [][/\ \A b \in blog_posts' :
               (\A a \in blog_posts : a.id # b.id) =>
                   \E u \in users : u.id = b.author_id /\ (b.is_available <=> u.role = "Admin")
          /\ \A a \in blog_posts : \A b \in blog_posts' :
               (a.id = b.id /\ a.is_available # b.is_available) =>
                   /\ b.is_available
                   /\ \E r \in Req : /\ At(r, "PUT /admin/blogs/:id/approve", "write")
                                     /\ req[r].user.role = "Admin"
                                     /\ req[r].id = b.id]_vars

\* A blog written by a Secretary and since approved is in the list an
\* anonymous caller received.
C17_Witness ==
    \E r \in Req :
        /\ At(r, "GET /blogs", "done")
        /\ req[r].token.kind = "none"
        /\ \E b \in req[r].body :
              /\ b.is_available
              /\ \E u \in users : u.id = b.author_id /\ u.role = "Secretary"

\* ------------------------------------------------------------------ C18
\* C18: no two connection records join the same unordered pair of accounts.
C18_OneConnectionPerPair ==
    \A c, d \in user_connections :
        {c.user_id, c.connected_user_id} = {d.user_id, d.connected_user_id} => c = d

C20_OneAttendeeRowPerPair ==
    /\ [](\A a, b \in event_attendees :
            (a.event_id = b.event_id /\ a.user_id = b.user_id) => a = b)
    /\ [][\A r \in Req :
            (req'[r] # req[r] /\ Event_exists(req'[r].id)) =>
               LET eventId == req'[r].id
                   userId == req'[r].user.id
                   before == AttendeeRows(eventId, userId)
                   after == {a \in event_attendees' : a.event_id = eventId /\ a.user_id = userId}
                   Row(status, by) == {[event_id |-> eventId, user_id |-> userId,
                                        status |-> status,
                                        checked_in_at |-> IF by = NULL THEN <<>> ELSE <<now>>,
                                        checked_in_by |-> by]}
               IN
               /\ event_attendees' \ after = event_attendees \ before
               /\ req'[r].status # 500
               /\ req'[r].pc = "done" => req'[r].status = 200
               /\ req'[r].kind = "rsvp" => after = Row("registered", NULL)
               /\ req'[r].kind = "cancel" =>
                     after = IF before = {} THEN {} ELSE Row("cancelled", NULL)
               /\ (req'[r].kind = "confirmAttendance" /\ req'[r].pc = "done") =>
                     after = Row("checked_in", req'[r].host)
               /\ (req'[r].kind = "confirmAttendance" /\ req'[r].pc = "insert") =>
                     before = {} /\ after = {}]_vars

\* A check-in that found no record to update is about to insert, while
\* another check-in of the same account, by a different confirming account,
\* has already left the pair's one record checked in.
C20_Witness ==
    \E r, q \in Req :
        /\ At(r, "confirmAttendance", "done") /\ req[r].status = 200
        /\ At(q, "confirmAttendance", "insert")
        /\ req[r].id = req[q].id /\ req[r].user = req[q].user
        /\ req[r].host # req[q].host
        /\ AttendeeRows(req[q].id, req[q].user.id) =
               {[event_id |-> req[r].id, user_id |-> req[r].user.id,
                 status |-> "checked_in", checked_in_at |-> <<now>>,
                 checked_in_by |-> req[r].host]}

\* ------------------------------------------------------------------ C21
\* C21: the status of the record of an (event, account) pair only moves from
\* registered to cancelled, from cancelled to registered, and from registered
\* or from no record to checked_in (or, by an rsvp, from no record to
\* registered); a checked_in record keeps its status and a cancelled record is
\* not checked in.
C21_AttendeeStatusTransitions ==
    [][\A b \in event_attendees' :
          LET old == {a \in event_attendees : a.event_id = b.event_id /\ a.user_id = b.user_id}
          IN  /\ old = {} => b.status \in {"registered", "checked_in"}
              /\ \A a \in old :
                    a.status # b.status =>
                        <<a.status, b.status>> \in {<<"registered", "cancelled">>,
                                                    <<"cancelled", "registered">>,
                                                    <<"registered", "checked_in">>}]_vars

\* ------------------------------------------------------------------ C30
\* C30: a record has a check-in time exactly when its status is checked_in:
\* a registered or cancelled record has neither a check-in time nor a
\* confirming account, a checked_in record has both, and a check-in that
\* returns leaves the record with the confirming account it was given.
C30_CheckInFieldsFollowStatus ==
    /\ [](\A a \in event_attendees :
            /\ a.status \in {"registered", "cancelled", "checked_in"}
            /\ (a.checked_in_at # <<>>) <=> (a.status = "checked_in")
            /\ a.status # "checked_in" => a.checked_in_by = NULL
            /\ a.status = "checked_in" => a.checked_in_by \in UserIds)
    /\ [][\A r \in Req :
            (/\ req'[r] # req[r]
             /\ req'[r].kind = "confirmAttendance"
             /\ req'[r].pc = "done" /\ req'[r].status = 200)
            => \E a \in event_attendees' :
                  /\ a.event_id = req'[r].id /\ a.user_id = req'[r].user.id
                  /\ a.status = "checked_in"
                  /\ a.checked_in_at # <<>>
                  /\ a.checked_in_by = req'[r].host]_vars

\* A record that was checked in by account 1 has been checked in again by
\* account 2, whose id it now holds.
C30_Witness ==
    \E r \in Req : \E a \in event_attendees :
        /\ At(r, "confirmAttendance", "done") /\ req[r].status = 200
        /\ req[r].host = 2
        /\ a.event_id = req[r].id /\ a.user_id = req[r].user.id
        /\ a.status = "checked_in" /\ a.checked_in_by = 2 /\ a.checked_in_at # <<>>
        /\ \E q \in Req : /\ At(q, "confirmAttendance", "done") /\ req[q].status = 200
                          /\ req[q].host = 1
                          /\ req[q].id = req[r].id /\ req[q].user = req[r].user

\* ------------------------------------------------------------------ C22
\* The six tables, and the differences a step makes to them: the triples
\* <<old row, new row, field>> of a row (found again by its key) whose field
\* changed.
SixTables ==
    <<community_events, blog_posts, timeline_posts, user_profiles, user_socials, user_addresses>>

\* C22 as stated: an update with one defined field changes that field of the
\* target row and nothing else in any row; an update with no defined field
\* returns null and writes nothing.
C22_UpdateChangesOnlyGivenField ==
    [][\A r \in Req :
          (req'[r] # req[r] /\ req'[r].kind = "update") =>
             LET fields == req'[r].body
                 given == {k \in DOMAIN fields : fields[k] # <<>>}
             IN
             /\ given = {} => ~req'[r].found /\ SixTables' = SixTables
             /\ Cardinality(given) = 1 =>
                   \A i \in 1..6 : \A new \in SixTables'[i] :
                      \/ new \in SixTables[i]
                      \/ \E old \in SixTables[i] :
                            /\ old \notin SixTables'[i]
                            /\ \A k \in DOMAIN old :
                                  new[k] = IF k \in given THEN fields[k][1] ELSE old[k]]_vars

\* C22 with the trigger: an update with one defined field changes, in the
\* target row alone, that field and updated_at, which becomes the time of the
\* statement; every other field, row and table is as before, and a key without
\* a row changes nothing; an update with no defined field returns null and
\* writes nothing.
C22_UpdateChangesGivenFieldAndTime ==
    [][\A r \in Req :
          (req'[r] # req[r] /\ req'[r].kind = "update") =>
             LET fields == req'[r].body
                 given == {k \in DOMAIN fields : fields[k] # <<>>}
                 Target(row) ==
                     IF "id" \in DOMAIN row THEN row.id = req'[r].id ELSE row.user_id = req'[r].id
             IN
             /\ given = {} => ~req'[r].found /\ SixTables' = SixTables
             /\ Cardinality(given) = 1 =>
                   \A i \in 1..6 :
                      /\ Cardinality(SixTables'[i]) = Cardinality(SixTables[i])
                      /\ \A new \in SixTables'[i] :
                           \/ new \in SixTables[i]
                           \/ \E old \in SixTables[i] :
                                 /\ Target(old) /\ Target(new)
                                 /\ given \subseteq DOMAIN old
                                 /\ \A k \in DOMAIN old :
                                       new[k] = IF k \in given THEN fields[k][1]
                                                ELSE IF k = "updated_at" THEN now
                                                ELSE old[k]]_vars

\* After the clock moved on, a blog's title alone was given a new value: the
\* row holds it, keeps its content, and carries the time of the update.
C22_Witness ==
    \E r \in Req :
        /\ At(r, "update", "done") /\ req[r].name = "blog_posts" /\ req[r].found
        /\ req[r].body = [title |-> <<"new">>, blog_content |-> <<>>]
        /\ \E b \in blog_posts :
              /\ b.id = req[r].id /\ b.title = "new" /\ b.blog_content = "old"
              /\ b.updated_at = 1

\* ------------------------------------------------------------------ C23
\* C23: no stored event has both an account as event_host and a free-text
\* event_host_name.
C23_HostOrHostNameNotBoth ==
    \A e \in community_events : ~(e.event_host # NULL /\ e.event_host_name # "")

C25_StoredPollHasItsOptions ==
    \A p \in polls : Cardinality({o \in poll_options : o.poll_id = p.id}) >= MinOptions

\* ------------------------------------------------------------------ C26
\* C26: a vote on an existing poll whose option_id names no stored option (the
\* store refuses the write by the foreign key of poll_votes.option_id) is
\* answered 404 and leaves poll_votes as it was, with or without a prior vote.
C26_UnknownOptionIs404 ==
    [][\A r \in Req :
          (/\ req[r].kind = "vote" /\ req[r].pc = "write"
           /\ req'[r].pc = "done"
           /\ req'[r].error = "foreign_key_violation")
          => req'[r].status = 404 /\ poll_votes' = poll_votes]_vars

\* ------------------------------------------------------------------ C27
\* C27: in every poll-results response, of GET /polls/:id and of a vote, the
\* option counts sum to total_votes, votes running concurrently or not.
C27_ResponseCountsSumToTotal ==
    \A r \in Req :
        (req[r].kind \in {"vote", "results"} /\ req[r].pc = "done" /\ req[r].status = 200)
        => SumCounts(req[r].body.options) = req[r].body.total_votes

\* ------------------------------------------------------------------ C28
\* C28: at least one account has role Admin, in every state role-update
\* requests reach from tables that hold an Admin, however they interleave.
C28_AnAdminRemains == \E u \in users : u.role = "Admin"

\* ------------------------------------------------------------------ C29
\* C29: a GET /profile/:identifier answer that carries the email, phone number
\* or address of an account other than the one its token names went to a
\* caller authenticateToken lets through (a token of a stored, activated or
\* Admin account).
C29_PrivateViewNeedsRequiredAuth ==
    \A r \in Req :
        (/\ At(r, "GET /profile/:identifier", "done") /\ req[r].status = 200
         /\ ~(req[r].token.kind = "valid" /\ req[r].token.userId = req[r].body.id)
         /\ \/ req[r].body.email # <<>>
            \/ req[r].body.user.email # <<>>
            \/ req[r].body.phone # <<>>
            \/ req[r].body.address # <<>>)
        => authenticateToken(req[r].token).status = 0

====
